---- MODULE Spec2Model ----
(***************************************************************************)
(* Togglekit feature-flag evaluation engine (flags-core-ts): the rollout   *)
(* hasher, the condition matcher and the Evaluator, and the Node and web   *)
(* clients that own an Evaluator, modelled as a state machine whose        *)
(* actions are the public operations of the packages.                      *)
(*                                                                         *)
(* JavaScript values are tagged records [t |-> <type>, v |-> <payload>];   *)
(* strings handed to the hasher are sequences of UTF-16 code units.        *)
(***************************************************************************)
EXTENDS Integers, Sequences, FiniteSets, TLC

VARIABLES
    config,     \* Evaluator.config: the FlagConfig given to the constructor
    last,       \* the most recent call of a public operation and what it returned
    history,    \* when recording: the first evaluation made and the number made
    input,      \* the strings handed to the hasher when it is called directly
    client,     \* the FlagClient or WebFlagClient that owns the Evaluator, if any
    request,    \* the fetchConfig call in progress, if any
    db          \* the API's database: the flags table and the ids given out

vars == <<config, last, history, input, client, request, db>>

----------------------------------------------------------------------------
(* JavaScript numbers used by the hasher.  A number is kept as             *)
(* hi * 65536 + lo with lo in 0..65535 and hi a signed integer, so that    *)
(* every intermediate value of simpleHash (up to 2^33 in magnitude) and    *)
(* Math.abs(-2^31) = 2^31 are represented exactly.                         *)

W16 == 65536

Num(hi, lo) == [hi |-> hi, lo |-> lo]

\* ToInt32 of ECMAScript: reduce modulo 2^32 into -2^31 .. 2^31 - 1.
ToInt32(x) ==
    LET h == x.hi % W16
    IN  Num(IF h >= 32768 THEN h - W16 ELSE h, x.lo)

\* x << n for 0 <= n <= 15: ToInt32(x), shifted left, truncated to 32 bits.
ShiftLeft(x, n) ==
    LET i    == ToInt32(x)
        m    == 2 ^ n
        low  == i.lo * m
        high == (i.hi % W16) * m + (low \div W16)
    IN  ToInt32(Num(high % W16, low % W16))

\* a - b on numbers (exact: no truncation happens before the next `&').
Minus(a, b) ==
    LET low == a.lo - b.lo
    IN  IF low < 0 THEN Num(a.hi - b.hi - 1, low + W16)
                   ELSE Num(a.hi - b.hi, low)

\* a + c for a code unit c in 0..65535.
PlusChar(a, c) ==
    LET low == a.lo + c
    IN  IF low >= W16 THEN Num(a.hi + 1, low - W16) ELSE Num(a.hi, low)

\* hash & hash: both operands go through ToInt32 and x & x = x.
BitAndSelf(x) == ToInt32(x)

\* Math.abs on a number: exact, 2^31 included.
MathAbs(x) ==
    IF x.hi >= 0 THEN x
    ELSE IF x.lo = 0 THEN Num(-x.hi, 0)
         ELSE Num(-x.hi - 1, W16 - x.lo)

\* x % 101 of JavaScript: the remainder takes the sign of the dividend.
Rem101(x) ==
    LET m == MathAbs(x)
        r == ((m.hi % 101) * (W16 % 101) + m.lo) % 101
    IN  IF x.hi < 0 THEN -r ELSE r

----------------------------------------------------------------------------
(* rollout.ts                                                              *)

\* the 32-bit signed integers, as numbers
IsInt32(x) == x.hi \in -32768..32767 /\ x.lo \in 0..(W16 - 1)

RECURSIVE hashLoop(_, _, _)
\* the for loop of simpleHash: i is the 1-based position of the next char;
\* after `hash & hash' the hash is a 32-bit signed integer.
hashLoop(str, i, hash) ==
    IF i > Len(str) THEN hash
    ELSE LET char == str[i]
             next == BitAndSelf(PlusChar(Minus(ShiftLeft(hash, 5), hash), char))
         IN  CASE IsInt32(next) -> hashLoop(str, i + 1, next)

RECURSIVE hashLoopShift4(_, _, _)
hashLoopShift4(str, i, hash) ==
    IF i > Len(str) THEN hash
    ELSE LET char == str[i]
             next == BitAndSelf(PlusChar(Minus(ShiftLeft(hash, 4), hash), char))
         IN  CASE IsInt32(next) -> hashLoopShift4(str, i + 1, next)

\* simpleHash with the final Math.abs left out.
simpleHash_noAbs(str) == hashLoop(str, 1, Num(0, 0))

\* simpleHash with hash << 4 in place of hash << 5.
simpleHash_shift4(str) == MathAbs(hashLoopShift4(str, 1, Num(0, 0)))

simpleHash(str) == MathAbs(hashLoop(str, 1, Num(0, 0)))

Colon == 58

\* computeRolloutBucket that remembers the bucket recorded by the previous
\* evaluation and returns it again, whatever the user and the flag.
computeRolloutBucket_sticky(userId, flagKey) ==
    IF /\ last.op \in {"evalBool", "evalVariant"}
       /\ last.result.t = "object"
       /\ "metadata" \in DOMAIN last.result.v
       /\ "bucket" \in DOMAIN last.result.v.metadata.v
       /\ last.result.v.metadata.v.bucket.t = "number"
    THEN last.result.v.metadata.v.bucket.v
    ELSE Rem101(simpleHash(userId \o <<Colon>> \o flagKey))

\* `${userId}:${flagKey}` hashed and reduced modulo 101.
computeRolloutBucket(userId, flagKey) ==
    Rem101(simpleHash(userId \o <<Colon>> \o flagKey))

----------------------------------------------------------------------------
(* Strings.  A JavaScript string is a TLA+ string; CodeUnits gives the     *)
(* UTF-16 code units (what charCodeAt returns) of every string that the    *)
(* configurations and contexts below are built from.                       *)

CodeUnits ==
       "" :> <<>>
    @@ "plan" :> <<112, 108, 97, 110>>
    @@ "country" :> <<99, 111, 117, 110, 116, 114, 121>>
    @@ "premium" :> <<112, 114, 101, 109, 105, 117, 109>>
    @@ "free" :> <<102, 114, 101, 101>>
    @@ "US" :> <<85, 83>>
    @@ "UK" :> <<85, 75>>
    @@ "user-213" :> <<117, 115, 101, 114, 45, 50, 49, 51>>
    @@ "user-123" :> <<117, 115, 101, 114, 45, 49, 50, 51>>
    @@ "test-flag" :> <<116, 101, 115, 116, 45, 102, 108, 97, 103>>
    @@ "missing-flag" :> <<109, 105, 115, 115, 105, 110, 103, 45, 102, 108, 97, 103>>
    @@ "constructor" :> <<99, 111, 110, 115, 116, 114, 117, 99, 116, 111, 114>>
    @@ "undefined" :> <<117, 110, 100, 101, 102, 105, 110, 101, 100>>
    @@ "age" :> <<97, 103, 101>>
    @@ "ageText" :> <<97, 103, 101, 84, 101, 120, 116>>
    @@ "user" :> <<117, 115, 101, 114>>
    @@ "user.plan" :> <<117, 115, 101, 114, 46, 112, 108, 97, 110>>
    @@ "user.age" :> <<117, 115, 101, 114, 46, 97, 103, 101>>
    @@ "user.missing" :> <<117, 115, 101, 114, 46, 109, 105, 115, 115, 105, 110, 103>>
    @@ "tags" :> <<116, 97, 103, 115>>
    @@ "tags.length" :> <<116, 97, 103, 115, 46, 108, 101, 110, 103, 116, 104>>
    @@ "plan.length" :> <<112, 108, 97, 110, 46, 108, 101, 110, 103, 116, 104>>
    @@ "none" :> <<110, 111, 110, 101>>
    @@ "nan" :> <<110, 97, 110>>
    @@ "on" :> <<111, 110>>
    @@ "missing" :> <<109, 105, 115, 115, 105, 110, 103>>
    @@ "25" :> <<50, 53>>
    @@ "abc" :> <<97, 98, 99>>
    @@ "12abc" :> <<49, 50, 97, 98, 99>>
    @@ "true" :> <<116, 114, 117, 101>>
    @@ "beta" :> <<98, 101, 116, 97>>
    @@ "literal" :> <<108, 105, 116, 101, 114, 97, 108>>
    @@ "nested" :> <<110, 101, 115, 116, 101, 100>>
    @@ "length" :> <<108, 101, 110, 103, 116, 104>>
    @@ "rollout-flag" :> <<114, 111, 108, 108, 111, 117, 116, 45, 102, 108, 97, 103>>
    @@ "enrolled" :> <<101, 110, 114, 111, 108, 108, 101, 100>>
    @@ "user-1" :> <<117, 115, 101, 114, 45, 49>>
    @@ "user-3" :> <<117, 115, 101, 114, 45, 51>>

Strings == DOMAIN CodeUnits

\* the string that has the given code units
StrOf(codes) == CHOOSE s \in Strings : CodeUnits[s] = codes

----------------------------------------------------------------------------
(* JavaScript values: [t |-> typeof-like tag, v |-> payload].              *)

Undefined == [t |-> "undefined", v |-> 0]
Null      == [t |-> "null", v |-> 0]
NaN       == [t |-> "NaN", v |-> 0]
Bool(b)   == [t |-> "boolean", v |-> b]
Number(n) == [t |-> "number", v |-> n]
Str(s)    == [t |-> "string", v |-> s]
Arr(seq)  == [t |-> "array", v |-> seq]
Obj(rec)  == [t |-> "object", v |-> rec]
Fun(name) == [t |-> "function", v |-> name]

\* an exception propagating out of a call
Thrown(e) == [t |-> "throw", v |-> e]
TypeError == Thrown("TypeError")
IsThrown(x) == x.t = "throw"

\* an object literal without properties
NoProps == [k \in {} |-> Undefined]

\* Properties every plain object inherits from Object.prototype.
ObjectPrototypeProps ==
    {"constructor", "toString", "valueOf", "hasOwnProperty",
     "isPrototypeOf", "propertyIsEnumerable", "toLocaleString", "__proto__"}

IsNullish(x) == x.t \in {"undefined", "null"}

\* `key in x` for an object x (own or inherited property)
HasProperty(x, key) ==
    \/ x.t = "object" /\ (key \in DOMAIN x.v \/ key \in ObjectPrototypeProps)
    \/ x.t = "array" /\ key = "length"

\* x[key]: own property, else the inherited member, else undefined
GetProperty(x, key) ==
    IF x.t = "object" /\ key \in DOMAIN x.v THEN x.v[key]
    ELSE IF x.t = "object" /\ key \in ObjectPrototypeProps THEN Fun(key)
    ELSE IF x.t = "array" /\ key = "length" THEN Number(Len(x.v))
    ELSE Undefined

\* ToBoolean
Truthy(x) ==
    CASE x.t \in {"undefined", "null", "NaN"} -> FALSE
      [] x.t = "boolean" -> x.v
      [] x.t = "number"  -> x.v # 0
      [] x.t = "string"  -> x.v # ""
      [] OTHER           -> TRUE

\* a === b; two object or array values met by the engine are never the
\* same reference (one comes from the configuration, one from the context)
StrictEquals(a, b) ==
    /\ a.t = b.t
    /\ a.t \notin {"object", "array", "function", "NaN"}
    /\ a.v = b.v

RECURSIVE String(_)
RECURSIVE joinFrom(_, _)
\* Array.prototype.join(",") from element i on
joinFrom(seq, i) ==
    IF i > Len(seq) THEN ""
    ELSE (IF i > 1 THEN "," ELSE "")
         \o (IF IsNullish(seq[i]) THEN "" ELSE String(seq[i]))
         \o joinFrom(seq, i + 1)

\* String(x)
String(x) ==
    CASE x.t = "undefined" -> "undefined"
      [] x.t = "null"      -> "null"
      [] x.t = "NaN"       -> "NaN"
      [] x.t = "boolean"   -> IF x.v THEN "true" ELSE "false"
      [] x.t = "number"    -> ToString(x.v)
      [] x.t = "string"    -> x.v
      [] x.t = "array"     -> joinFrom(x.v, 1)
      [] x.t = "object"    -> "[object Object]"
      [] OTHER             -> "function () { [native code] }"

\* a conversion to boolean that is left out: the value is passed through.
Boolean_raw(x) == x

\* Boolean(x)
Boolean(x) == Bool(Truthy(x))

----------------------------------------------------------------------------
(* Helpers on code units: String.prototype.split('.'), includes and         *)
(* parseFloat.                                                             *)

Dot == 46

RECURSIVE splitFrom(_, _, _)
\* split on '.': cur is the part being collected from position i on
splitFrom(codes, i, cur) ==
    IF i > Len(codes) THEN <<StrOf(cur)>>
    ELSE IF codes[i] = Dot THEN <<StrOf(cur)>> \o splitFrom(codes, i + 1, <<>>)
    ELSE splitFrom(codes, i + 1, Append(cur, codes[i]))

split(s) == splitFrom(CodeUnits[s], 1, <<>>)

\* haystack.includes(needle)
includes(haystack, needle) ==
    LET h == CodeUnits[haystack]
        n == CodeUnits[needle]
    IN  \E i \in 0..(Len(h) - Len(n)) : SubSeq(h, i + 1, i + Len(n)) = n

WhiteSpace == {9, 10, 11, 12, 13, 32, 160}
Digits == 48..57

RECURSIVE skipWhite(_, _)
skipWhite(codes, i) ==
    IF i <= Len(codes) /\ codes[i] \in WhiteSpace THEN skipWhite(codes, i + 1)
    ELSE i

RECURSIVE digitsFrom(_, _, _)
\* the value of the longest run of decimal digits starting at i, or -1
digitsFrom(codes, i, acc) ==
    IF i <= Len(codes) /\ codes[i] \in Digits
    THEN digitsFrom(codes, i + 1, (IF acc < 0 THEN 0 ELSE acc) * 10 + codes[i] - 48)
    ELSE acc

\* parseFloat(s) for strings without a fraction or exponent part: leading
\* white space, an optional sign, then the longest prefix of digits.
parseFloat(s) ==
    LET codes == CodeUnits[s]
        i     == skipWhite(codes, 1)
        neg   == i <= Len(codes) /\ codes[i] = 45
        j     == IF i <= Len(codes) /\ codes[i] \in {43, 45} THEN i + 1 ELSE i
        n     == digitsFrom(codes, j, -1)
    IN  IF n < 0 THEN NaN ELSE Number(IF neg THEN -n ELSE n)

----------------------------------------------------------------------------
(* conditions.js                                                           *)

RECURSIVE walkParts(_, _, _)
\* the for..of loop of getAttributeValue over parts[i..]
walkParts(parts, i, value) ==
    IF i > Len(parts) THEN value
    ELSE IF Truthy(value) /\ value.t \in {"object", "array"}
            /\ HasProperty(value, parts[i])
         THEN walkParts(parts, i + 1, GetProperty(value, parts[i]))
         ELSE Undefined

\* getAttributeValue(context, attribute); `in` raises a TypeError when its
\* right operand is not an object.
getAttributeValue(context, attribute) ==
    LET attributes == GetProperty(context, "attributes")
    IN  IF attributes.t \notin {"object", "array", "function"} THEN TypeError
        ELSE IF HasProperty(attributes, attribute)
             THEN GetProperty(attributes, attribute)
             ELSE walkParts(split(attribute), 1, attributes)

\* an equality without the fallback to the string representations.
areEqual_strict(a, b) ==
    IF StrictEquals(a, b) THEN TRUE
    ELSE IF IsNullish(a) \/ IsNullish(b) THEN IsNullish(a) /\ IsNullish(b)
    ELSE FALSE

\* areEqual(a, b): a === b, else a == b when one of them is null or
\* undefined, else String(a) === String(b)
areEqual(a, b) ==
    IF StrictEquals(a, b) THEN TRUE
    ELSE IF IsNullish(a) \/ IsNullish(b) THEN IsNullish(a) /\ IsNullish(b)
    ELSE String(a) = String(b)

\* isNaN(num) ? null : num
nullIfNaN(num) == IF num.t = "NaN" THEN Null ELSE num

\* toNumber: a number, or Null when the value cannot be converted
toNumber(value) ==
    IF value.t = "number" THEN value
    ELSE IF value.t = "NaN" THEN value
    ELSE IF value.t = "string" THEN nullIfNaN(parseFloat(value.v))
    ELSE Null

contains(haystack, needle) ==
    IF haystack.t = "string" /\ needle.t = "string"
    THEN includes(haystack.v, needle.v)
    ELSE IF haystack.t = "array"
         THEN \E i \in 1..Len(haystack.v) : areEqual(haystack.v[i], needle)
         ELSE FALSE

\* a comparison whose 'gte' case uses > in place of >=.
compareNumbers_strictGte(operator, numActual, numValue) ==
    IF numActual.t = "null" \/ numValue.t = "null" THEN FALSE
    ELSE IF numActual.t = "NaN" \/ numValue.t = "NaN" THEN FALSE
    ELSE CASE operator = "gt"  -> numActual.v > numValue.v
           [] operator = "gte" -> numActual.v > numValue.v
           [] operator = "lt"  -> numActual.v < numValue.v
           [] operator = "lte" -> numActual.v <= numValue.v

\* numActual <op> numValue of the gt / gte / lt / lte cases, on the results
\* of toNumber (NaN compares false)
compareNumbers(operator, numActual, numValue) ==
    IF numActual.t = "null" \/ numValue.t = "null" THEN FALSE
    ELSE IF numActual.t = "NaN" \/ numValue.t = "NaN" THEN FALSE
    ELSE CASE operator = "gt"  -> numActual.v > numValue.v
           [] operator = "gte" -> numActual.v >= numValue.v
           [] operator = "lt"  -> numActual.v < numValue.v
           [] operator = "lte" -> numActual.v <= numValue.v

\* a missing attribute on which every 'neq' condition matches, whatever its
\* comparison value.
missingAttribute_neqAlways(operator, value) == Bool(operator = "neq")

\* the early return for a missing attribute: operator === 'neq' decides,
\* with value !== undefined
missingAttribute(operator, value) ==
    Bool(operator = "neq" /\ value.t # "undefined")

\* evaluateCondition once the attribute is looked up: the early return for
\* a missing attribute, then the switch on the operator; an exception
\* raised by the lookup passes through
applyOperator(operator, actualValue, value) ==
    IF IsThrown(actualValue) THEN actualValue
    ELSE IF actualValue.t = "undefined"
         THEN missingAttribute(operator, value)
    ELSE CASE operator = "eq"  -> Bool(areEqual(actualValue, value))
           [] operator = "neq" -> Bool(~areEqual(actualValue, value))
           [] operator = "in"  ->
                Bool(value.t = "array"
                     /\ \E i \in 1..Len(value.v) : areEqual(actualValue, value.v[i]))
           [] operator \in {"gt", "gte", "lt", "lte"} ->
                Bool(compareNumbers(operator, toNumber(actualValue), toNumber(value)))
           [] operator = "contains" -> Bool(contains(actualValue, value))
           [] OTHER -> Bool(FALSE)

\* evaluateCondition: TRUE, FALSE, or the exception raised by the lookup
evaluateCondition(condition, context) ==
    applyOperator(GetProperty(condition, "operator").v,
                  getAttributeValue(context, GetProperty(condition, "attribute").v),
                  GetProperty(condition, "value"))

RECURSIVE everyFrom(_, _, _)
RECURSIVE everyNext(_, _, _, _)
\* an iteration that goes on after a condition that is false, so that
\* only the last condition can make the result false.
everyNext_lastDecides(r, conditions, i, context) ==
    IF IsThrown(r) THEN r
    ELSE IF ~r.v /\ i = Len(conditions) THEN Bool(FALSE)
    ELSE everyFrom(conditions, i + 1, context)

\* conditions.every(...) after the callback returned r for element i: stops
\* at the first condition that is false, and an exception ends the iteration
everyNext(r, conditions, i, context) ==
    IF IsThrown(r) THEN r
    ELSE IF ~r.v THEN Bool(FALSE)
    ELSE everyFrom(conditions, i + 1, context)

\* conditions.every(...) from element i on
everyFrom(conditions, i, context) ==
    IF i > Len(conditions) THEN Bool(TRUE)
    ELSE everyNext(evaluateCondition(conditions[i], context), conditions, i, context)

\* evaluateConditions(conditions, context)
evaluateConditions(conditions, context) ==
    IF ~Truthy(conditions) \/ Len(conditions.v) = 0 THEN Bool(TRUE)
    ELSE everyFrom(conditions.v, 1, context)

----------------------------------------------------------------------------
(* evaluator.js                                                            *)

\* what evaluateRule returns
RuleResult(matched, reason, bucket) ==
    Obj([matched |-> Bool(matched), reason |-> Str(reason), bucket |-> bucket])

\* a rollout check that does not ask for a percentage strictly below 100:
\* a percentage of exactly 100 is bucketed too.
hasRollout_upTo100(percentage) ==
    percentage.t # "undefined" /\ percentage.v <= 100

\* rule.percentage !== undefined && rule.percentage < 100
hasRollout(percentage) ==
    percentage.t # "undefined" /\ percentage.v < 100

\* a rollout check that never finds the userId missing: the bucket of
\* String(undefined) or of the empty string is used.
lacksUserId_never(context) == FALSE

\* !context.userId
lacksUserId(context) == ~Truthy(GetProperty(context, "userId"))

\* a rollout check with a strict comparison.
inRollout_strict(bucket, percentage) == bucket < percentage.v

\* a rollout check with the comparison turned round.
inRollout_inverted(bucket, percentage) == bucket >= percentage.v

\* bucket <= rule.percentage
inRollout(bucket, percentage) == bucket <= percentage.v

\* the rollout check once the bucket is computed
rolloutCheck(bucket, percentage) ==
    IF inRollout(bucket, percentage)
    THEN RuleResult(TRUE, "rollout", Number(bucket))
    ELSE RuleResult(FALSE, "rollout_excluded", Number(bucket))

\* evaluateRule once its conditions are evaluated; an exception raised by
\* a condition passes through
afterConditions(conditionsMatch, rule, context, flagKey) ==
    IF IsThrown(conditionsMatch) THEN conditionsMatch
    ELSE IF ~conditionsMatch.v
         THEN RuleResult(FALSE, "rollout_excluded", Undefined)
    ELSE IF hasRollout(GetProperty(rule, "percentage"))
         THEN IF lacksUserId(context)
              THEN RuleResult(FALSE, "rollout_excluded", Undefined)
              ELSE rolloutCheck(
                       computeRolloutBucket(
                           CodeUnits[String(GetProperty(context, "userId"))],
                           CodeUnits[flagKey]),
                       GetProperty(rule, "percentage"))
    ELSE RuleResult(TRUE, "rule_match", Undefined)

\* rule.conditions || []
conditionsOf(rule) ==
    IF Truthy(GetProperty(rule, "conditions")) THEN GetProperty(rule, "conditions")
                                               ELSE Arr(<<>>)

\* Evaluator.evaluateRule(rule, context, flagKey)
evaluateRule(rule, context, flagKey) ==
    afterConditions(evaluateConditions(conditionsOf(rule), context),
                    rule, context, flagKey)

\* the result returned for a flag key that is not in the configuration
NotFound(value, flagKey) ==
    Obj([value    |-> value,
         reason   |-> Str("flag_not_found"),
         metadata |-> Obj([error |-> Str("Flag \"" \o flagKey
                                         \o "\" not found in configuration")])])

\* the result returned when rule i (0-based) matched
Matched(value, ruleResult, i) ==
    Obj([value    |-> value,
         reason   |-> GetProperty(ruleResult, "reason"),
         metadata |-> Obj([ruleIndex |-> Number(i),
                           bucket    |-> GetProperty(ruleResult, "bucket")])])

\* the result returned when no rule matched
Default(value) == Obj([value |-> value, reason |-> Str("default")])

\* flag.rules && flag.rules.length > 0, and i < flag.rules.length
hasRuleAt(flag, i) ==
    /\ Truthy(GetProperty(flag, "rules"))
    /\ Len(GetProperty(flag, "rules").v) > 0
    /\ i < Len(GetProperty(flag, "rules").v)

\* flag.rules[i], i 0-based
ruleAt(flag, i) == GetProperty(flag, "rules").v[i + 1]

\* a matched rule whose value is ignored: the result is always true.
valueOf_alwaysTrue(rule) == Bool(TRUE)

\* rule.value !== undefined ? rule.value : true
valueOf(rule) ==
    IF GetProperty(rule, "value").t # "undefined" THEN GetProperty(rule, "value")
                                                  ELSE Bool(TRUE)

\* rule.variant || String(flag.defaultValue)
variantOf(rule, flag) ==
    IF Truthy(GetProperty(rule, "variant")) THEN GetProperty(rule, "variant")
    ELSE Str(String(GetProperty(flag, "defaultValue")))

RECURSIVE evalBoolRules(_, _, _, _)
RECURSIVE evalBoolRule(_, _, _, _, _)
\* a loop body that does not return at the first matching rule: a later
\* matching rule overrides an earlier one.
evalBoolRule_lastMatch(ruleResult, flag, i, context, flagKey) ==
    IF IsThrown(ruleResult) THEN ruleResult
    ELSE IF /\ GetProperty(ruleResult, "matched").v
            /\ GetProperty(evalBoolRules(flag, i + 1, context, flagKey),
                           "metadata").t # "object"
         THEN Matched(Boolean(valueOf(ruleAt(flag, i))), ruleResult, i)
         ELSE evalBoolRules(flag, i + 1, context, flagKey)

\* a loop body that hands the tag of an excluded rule to the caller: a
\* rule excluded by its rollout ends the evaluation with 'rollout_excluded'.
evalBoolRule_reportsExcluded(ruleResult, flag, i, context, flagKey) ==
    IF IsThrown(ruleResult) THEN ruleResult
    ELSE IF GetProperty(ruleResult, "matched").v
         THEN Matched(Boolean(valueOf(ruleAt(flag, i))), ruleResult, i)
    ELSE IF GetProperty(ruleResult, "bucket") # Undefined
         THEN Obj([value    |-> Boolean(GetProperty(flag, "defaultValue")),
                   reason   |-> GetProperty(ruleResult, "reason"),
                   metadata |-> Obj([bucket |-> GetProperty(ruleResult, "bucket")])])
    ELSE evalBoolRules(flag, i + 1, context, flagKey)

\* the body of the for loop of evalBool for rule i, once the rule is
\* evaluated; an exception raised by a condition ends the evaluation
evalBoolRule(ruleResult, flag, i, context, flagKey) ==
    IF IsThrown(ruleResult) THEN ruleResult
    ELSE IF GetProperty(ruleResult, "matched").v
         THEN Matched(Boolean(valueOf(ruleAt(flag, i))), ruleResult, i)
         ELSE evalBoolRules(flag, i + 1, context, flagKey)

\* the for loop of evalBool from index i (0-based) on, then the default
evalBoolRules(flag, i, context, flagKey) ==
    IF ~hasRuleAt(flag, i)
    THEN Default(Boolean(GetProperty(flag, "defaultValue")))
    ELSE evalBoolRule(evaluateRule(ruleAt(flag, i), context, flagKey),
                      flag, i, context, flagKey)

RECURSIVE evalVariantRules(_, _, _, _)
RECURSIVE evalVariantRule(_, _, _, _, _)
\* the body of the for loop of evalVariant for rule i, once the rule is
\* evaluated
evalVariantRule(ruleResult, flag, i, context, flagKey) ==
    IF IsThrown(ruleResult) THEN ruleResult
    ELSE IF GetProperty(ruleResult, "matched").v
         THEN Matched(variantOf(ruleAt(flag, i), flag), ruleResult, i)
         ELSE evalVariantRules(flag, i + 1, context, flagKey)

\* the for loop of evalVariant from index i (0-based) on, then the default
evalVariantRules(flag, i, context, flagKey) ==
    IF ~hasRuleAt(flag, i)
    THEN Default(Str(String(GetProperty(flag, "defaultValue"))))
    ELSE evalVariantRule(evaluateRule(ruleAt(flag, i), context, flagKey),
                         flag, i, context, flagKey)

\* Evaluator.evalBool(flagKey, context)
evalBool(flagKey, context) ==
    LET flag == GetProperty(config, flagKey)
    IN  IF ~Truthy(flag) THEN NotFound(Bool(FALSE), flagKey)
        ELSE evalBoolRules(flag, 0, context, flagKey)

\* Evaluator.evalVariant(flagKey, context)
evalVariant(flagKey, context) ==
    LET flag == GetProperty(config, flagKey)
    IN  IF ~Truthy(flag) THEN NotFound(Str("default"), flagKey)
        ELSE evalVariantRules(flag, 0, context, flagKey)

\* Evaluator.hasFlag(flagKey)
hasFlag(flagKey) == Bool(HasProperty(config, flagKey))

\* Evaluator.getFlagKeys(): Object.keys(this.config), as a set
getFlagKeys == DOMAIN config.v

\* Evaluator.getConfig()
getConfig == config

----------------------------------------------------------------------------
(* Inputs: the configurations an Evaluator is constructed with, and the    *)
(* flag keys and contexts its callers pass.                                *)

MaxRules == 2

Condition(attribute, operator, value) ==
    Obj([attribute |-> Str(attribute), operator |-> Str(operator), value |-> value])

PlanIsPremium == Condition("plan", "eq", Str("premium"))
CountryInUsUk == Condition("country", "in", Arr(<<Str("US"), Str("UK")>>))

RulePool ==
    { Obj([conditions |-> Arr(<<PlanIsPremium>>), value |-> Bool(TRUE)]),
      Obj([conditions |-> Arr(<<>>), percentage |-> Number(50), value |-> Bool(FALSE)]),
      Obj([conditions |-> Arr(<<CountryInUsUk>>), percentage |-> Number(75),
           variant |-> Str("variant-b")]),
      Obj([percentage |-> Number(100), variant |-> Str("variant-a")]),
      Obj([conditions |-> Arr(<<PlanIsPremium>>), percentage |-> Number(150)]) }

\* rule lists of at most MaxRules distinct rules of the pool
RuleLists ==
    UNION { { rules \in [1..n -> RulePool] :
                \A i, j \in 1..n : rules[i] = rules[j] => i = j } : n \in 0..MaxRules }

\* what a flag declares as its rules: nothing, or a list
RuleChoices == {Undefined} \cup { Arr(rules) : rules \in RuleLists }

Defaults == { Bool(FALSE), Str("control") }

\* a property that is present only when its value is given
Optional(key, value) == IF value = Undefined THEN NoProps ELSE key :> value

\* { "test-flag": { key, defaultValue, rules? } }
FlagConfig(rules, defaultValue) ==
    Obj("test-flag" :> Obj(   Optional("rules", rules)
                           @@ [key |-> Str("test-flag"),
                               defaultValue |-> defaultValue]))

Configs == { FlagConfig(rules, d) : rules \in RuleChoices, d \in Defaults }

\* a configured key, an unknown key, and a key that names a member of
\* Object.prototype
FlagKeys == {"test-flag", "missing-flag", "constructor"}

Context(userId, attributes) ==
    Obj(Optional("userId", userId) @@ Optional("attributes", attributes))

\* no userId, an empty one, and users whose buckets for "test-flag" are 50 and 51
UserIds == { Undefined, Str(""), Str("user-213"), Str("user-123") }

AttributeMaps ==
    { Undefined,
      Obj([plan |-> Str("premium"), country |-> Str("US")]),
      Obj([plan |-> Str("free")]) }

Contexts == { Context(u, a) : u \in UserIds, a \in AttributeMaps }

\* the arguments of evalBool and evalVariant: the configured key with every
\* context, the other keys with an empty context and a full one
EvalInputs ==
         { <<"test-flag", context>> : context \in Contexts }
    \cup { <<flagKey, Context(u, a)>> :
                flagKey \in FlagKeys \ {"test-flag"},
                u \in {Undefined, Str("user-123")},
                a \in {Undefined, Obj([plan |-> Str("premium"), country |-> Str("US")])} }

----------------------------------------------------------------------------
(* The state machine: an Evaluator is constructed, then its operations are *)
(* called in any order with any arguments.                                 *)

MaxCalls == 3

\* a fetchConfig call: where it stands (idle: not called; fetching:
\* awaiting fetchFn; reading: awaiting response.json(); resolved;
\* rejected), its timeout and the time since the call in ms, whether its
\* setTimeout is pending, whether controller.abort() has run, what the
\* promise settled with, and when
Request(pc, timeout, now, armed, aborted, result, settledAt) ==
    [pc |-> pc, timeout |-> timeout, now |-> now, armed |-> armed,
     aborted |-> aborted, result |-> result, settledAt |-> settledAt]

\* no fetchConfig call is modelled
NoRequest == Request("idle", 0, 0, FALSE, FALSE, Undefined, 0)

\* the database: the rows of the flags table and the number of ids
\* createFlag has given out (crypto.randomUUID() never gives one twice)
Db(flags, created) == [flags |-> flags, created |-> created]

\* the database after the migrations, before any flag is created
NoFlags == Db({}, 0)

\* a refresh() awaiting fetchConfig: whether the interval callback made
\* the call, and whether a refresh started after it has already installed
\* its response
Fetch(timer, overtaken) == [timer |-> timer, overtaken |-> overtaken]

\* how a refresh() ended: who called it, what fetchConfig gave (a
\* configuration or an error), and the error its caller received
Settled(timer, response, raised) ==
    [timer |-> timer, response |-> response, raised |-> raised]

NoneSettled == Settled(FALSE, Undefined, Undefined)

\* a client as its constructor leaves it: which class it is (WebFlagClient
\* or FlagClient), whether apiUrl and apiKey are both set, options.enableRefresh,
\* no interval running, isInitialized, not closed, no listeners, and the
\* refresh() calls awaiting fetchConfig in the order they were made.  When
\* record is set the client is observed: the way the last refresh() ended,
\* whether the evaluator held was installed by a refresh that a later one
\* had overtaken, and the listeners that the last notifyListeners invoked
\* are kept.
Client(web, remote, enableRefresh, isInitialized, record) ==
    [web |-> web, remote |-> remote, enableRefresh |-> enableRefresh,
     refreshTimer |-> FALSE, isInitialized |-> isInitialized, isClosed |-> FALSE,
     fetching |-> <<>>, listeners |-> <<>>,
     record |-> record, settled |-> NoneSettled, stale |-> FALSE,
     notified |-> <<>>]

\* an Evaluator used on its own is owned by no client
NoClient == Client(FALSE, FALSE, FALSE, FALSE, FALSE)

Call(op, args, result) == [op |-> op, args |-> args, result |-> result]

NoCall == Call("new", <<>>, Undefined)

\* history of evaluations: off, or the first evaluation and a count
History(on, first, calls) == [on |-> on, first |-> first, calls |-> calls]

\* the history after one more evaluation
Recorded(call) ==
    IF ~history.on THEN history
    ELSE History(TRUE, IF history.calls = 0 THEN call ELSE history.first,
                 history.calls + 1)

\* a recorded history holds at most MaxCalls evaluations
MayEvaluate == IF history.on THEN history.calls < MaxCalls ELSE TRUE

Init ==
    /\ config \in Configs
    /\ last = NoCall
    /\ history = History(FALSE, NoCall, 0)
    /\ input = <<>>
    /\ request = NoRequest
    /\ db = NoFlags
    /\ client = NoClient

\* an evalBool that drops the flags of its Evaluator once it has answered
EvalBool_forgetsFlags(inputs) ==
    \E args \in inputs :
        LET call == Call("evalBool", args, evalBool(args[1], args[2]))
        IN  /\ MayEvaluate
            /\ last' = call
            /\ history' = Recorded(call)
            /\ config' = Obj(NoProps)
            /\ UNCHANGED <<input, client, request, db>>

EvalBool(inputs) ==
    \E args \in inputs :
        LET call == Call("evalBool", args, evalBool(args[1], args[2]))
        IN  /\ MayEvaluate
            /\ last' = call
            /\ history' = Recorded(call)
            /\ UNCHANGED <<config, input, client, request, db>>

EvalVariant(inputs) ==
    \E args \in inputs :
        LET call == Call("evalVariant", args, evalVariant(args[1], args[2]))
        IN  /\ MayEvaluate
            /\ last' = call
            /\ history' = Recorded(call)
            /\ UNCHANGED <<config, input, client, request, db>>

HasFlag(keys) ==
    \E flagKey \in keys :
        /\ last' = Call("hasFlag", <<flagKey>>, hasFlag(flagKey))
        /\ UNCHANGED <<config, history, input, client, request, db>>

GetFlagKeys ==
    /\ last' = Call("getFlagKeys", <<>>, getFlagKeys)
    /\ UNCHANGED <<config, history, input, client, request, db>>

GetConfig ==
    /\ last' = Call("getConfig", <<>>, getConfig)
    /\ UNCHANGED <<config, history, input, client, request, db>>

Next ==
    \/ EvalBool(EvalInputs)
    \/ EvalVariant(EvalInputs)
    \/ HasFlag(FlagKeys)
    \/ GetFlagKeys
    \/ GetConfig

Spec == Init /\ [][Next]_vars

----------------------------------------------------------------------------
(* Repeated evaluations on one Evaluator, with the first one recorded.     *)

RolloutHalf ==
    Obj([conditions |-> Arr(<<>>), percentage |-> Number(50), value |-> Bool(TRUE)])

PremiumQuarter ==
    Obj([conditions |-> Arr(<<PlanIsPremium>>), percentage |-> Number(25),
         variant |-> Str("variant-a")])

DetConfigs ==
    { FlagConfig(Arr(<<RolloutHalf>>), Bool(FALSE)),
      FlagConfig(Arr(<<PremiumQuarter, RolloutHalf>>), Str("control")) }

DetKeys == {"test-flag", "missing-flag"}

DetContexts ==
    { Context(u, a) :
        u \in { Undefined, Str("user-213"), Str("user-123") },
        a \in { Undefined, Obj([plan |-> Str("premium"), country |-> Str("US")]) } }

InitDet ==
    /\ config \in DetConfigs
    /\ last = NoCall
    /\ history = History(TRUE, NoCall, 0)
    /\ input = <<>>
    /\ request = NoRequest
    /\ db = NoFlags
    /\ client = NoClient

NextDet ==
    \/ EvalBool(DetKeys \X DetContexts)
    \/ EvalVariant(DetKeys \X DetContexts)
    \/ HasFlag(DetKeys)
    \/ GetFlagKeys
    \/ GetConfig

SpecDet == InitDet /\ [][NextDet]_vars

----------------------------------------------------------------------------
(* The condition matcher called directly: evaluateCondition and            *)
(* evaluateConditions are exported by the package.                         *)

MaxConditions == 2

\* an attributes map with scalar, nested, array, null and NaN values, and
\* with a key that is literally named "user.plan"
FullAttributes ==
    Obj(   ("user.plan" :> Str("literal"))
        @@ [age     |-> Number(25),
            ageText |-> Str("25"),
            plan    |-> Str("premium"),
            user    |-> Obj([plan |-> Str("nested"), age |-> Str("12abc")]),
            tags    |-> Arr(<<Str("beta"), Number(25)>>),
            none    |-> Null,
            nan     |-> NaN,
            on      |-> Bool(TRUE)])

\* an attributes map where "user.plan" exists only as a nested path
NestedAttributes ==
    Obj([user |-> Obj([plan |-> Str("nested")]), plan |-> Str("free")])

CondContexts ==
    { Context(Undefined, attributes) :
        attributes \in {Undefined, Obj(NoProps), NestedAttributes, FullAttributes} }

AttributePaths ==
    {"age", "ageText", "plan", "user.plan", "user.age", "user", "tags", "none",
     "nan", "on", "missing", "user.missing", "plan.length", "tags.length",
     "constructor"}

\* the operators of the switch, and one that is not among them
Operators == {"eq", "neq", "in", "gt", "gte", "lt", "lte", "contains", "matches"}

ConditionValues ==
    { Undefined, Null, NaN, Number(25), Number(30), Str("25"), Str("premium"),
      Str("abc"), Str("12abc"), Str("nested"), Bool(TRUE), Str("true"),
      Arr(<<Str("premium"), Number(25)>>) }

ConditionPool ==
    { Condition(attribute, operator, value) :
        attribute \in AttributePaths, operator \in Operators,
        value \in ConditionValues }

\* the conditions that lists of several conditions are made of
ListPool ==
    { PlanIsPremium, CountryInUsUk,
      Condition("age", "gte", Str("25")),
      Condition("user.plan", "neq", Str("nested")) }

\* a missing list, every list of one condition of the pool, and the lists
\* of zero or of two to MaxConditions conditions of ListPool
ConditionLists ==
    {Undefined}
        \cup { Arr(<<condition>>) : condition \in ConditionPool }
        \cup { Arr(list) : list \in UNION { [1..n -> ListPool] :
                                            n \in {0} \cup 2..MaxConditions } }

InitCond ==
    /\ config = FlagConfig(Undefined, Bool(FALSE))
    /\ last = NoCall
    /\ history = History(FALSE, NoCall, 0)
    /\ input \in ConditionLists \X CondContexts
    /\ request = NoRequest
    /\ db = NoFlags
    /\ client = NoClient

\* evaluateCondition(condition, context) on one condition of the input list
EvaluateCondition ==
    /\ input # <<>>
    /\ input[1].t = "array"
    /\ \E k \in 1..Len(input[1].v) :
           last' = Call("evaluateCondition", <<input[1].v[k], input[2]>>,
                        evaluateCondition(input[1].v[k], input[2]))
    /\ UNCHANGED <<config, history, input, client, request, db>>

\* evaluateConditions(conditions, context) on the input
EvaluateConditions ==
    /\ input # <<>>
    /\ last' = Call("evaluateConditions", input,
                    evaluateConditions(input[1], input[2]))
    /\ UNCHANGED <<config, history, input, client, request, db>>

NextCond ==
    \/ EvaluateCondition
    \/ EvaluateConditions

SpecCond == InitCond /\ [][NextCond]_vars

----------------------------------------------------------------------------
(* The exported hasher called directly on arbitrary strings.               *)

MaxHashLen == 3

\* code units: '0', 'z' and the largest code unit
HashAlphabet == {48, 122, 65535}

\* "6jfdkfo": with ":rollout-flag" appended its 32-bit hash is -2^31
MinHashUserId == <<54, 106, 102, 100, 107, 102, 111>>

\* "rollout-flag"
RolloutFlagKey == <<114, 111, 108, 108, 111, 117, 116, 45, 102, 108, 97, 103>>

HashStrings ==
    UNION { [1..n -> HashAlphabet] : n \in 0..MaxHashLen }
        \cup {MinHashUserId, RolloutFlagKey}

InitHash ==
    /\ config = FlagConfig(Undefined, Bool(FALSE))
    /\ last = NoCall
    /\ history = History(FALSE, NoCall, 0)
    /\ input \in HashStrings \X HashStrings
    /\ request = NoRequest
    /\ db = NoFlags
    /\ client = NoClient

\* computeRolloutBucket(userId, flagKey) called on the input strings
ComputeRolloutBucket ==
    /\ input # <<>>
    /\ last' = Call("computeRolloutBucket", input,
                    Number(computeRolloutBucket(input[1], input[2])))
    /\ UNCHANGED <<config, history, input, client, request, db>>

NextHash == ComputeRolloutBucket

SpecHash == InitHash /\ [][NextHash]_vars

----------------------------------------------------------------------------
(* The clients: FlagClient (flags-client-node) and WebFlagClient           *)
(* (flags-client-web).  A client owns one Evaluator, which it replaces     *)
(* when a refresh completes or updateConfig is called.  JavaScript runs    *)
(* each synchronous call and each continuation of an await to completion,  *)
(* so each of them is one action; a refresh() is two: the call up to       *)
(* `await fetchConfig(...)`, and the continuation once the fetch settles.  *)

MaxFetches == 2
MaxListeners == 2

\* new Evaluator(config): the constructor stores the configuration it is given
Evaluator(newConfig) == newConfig

\* a replacement that copies the new flags over the ones already held
replaceEvaluator_merged(evaluator, newConfig) ==
    Obj(newConfig.v @@ evaluator.v)

\* this.evaluator = new Evaluator(newConfig): the reference is replaced by
\* one assignment and nothing of the evaluator held before is kept
replaceEvaluator(evaluator, newConfig) == Evaluator(newConfig)

ClientIsClosed == Thrown("Client is closed")
CannotRefresh == Thrown("Cannot refresh: API URL and key required")

\* the promise of an async call that is awaiting
Pending == [t |-> "promise", v |-> "pending"]

EnrolledIsTrue == Condition("enrolled", "eq", Bool(TRUE))

\* the flag of the client tests: one rule with a condition and percentage 50
RolloutFlag ==
    Obj([key |-> Str("rollout-flag"), defaultValue |-> Bool(FALSE),
         rules |-> Arr(<<Obj([conditions |-> Arr(<<EnrolledIsTrue>>),
                              percentage |-> Number(50),
                              value |-> Bool(TRUE)])>>)])

\* the same key without a rollout, as a later configuration defines it
RolloutFlagReleased ==
    Obj([key |-> Str("rollout-flag"), defaultValue |-> Bool(TRUE),
         rules |-> Arr(<<Obj([conditions |-> Arr(<<EnrolledIsTrue>>),
                              value |-> Bool(FALSE)])>>)])

SimpleFlag == Obj([key |-> Str("test-flag"), defaultValue |-> Bool(TRUE)])

\* the configurations a client is created with, fetches, or is updated with
ClientConfigs ==
    { Obj("rollout-flag" :> RolloutFlag),
      Obj("rollout-flag" :> RolloutFlagReleased @@ "test-flag" :> SimpleFlag),
      Obj(NoProps) }

ClientKeys == {"rollout-flag", "test-flag"}

\* no userId, and users whose buckets for "rollout-flag" are 23 and 66
ClientContexts ==
    { Context(u, a) :
        u \in { Undefined, Str("user-1"), Str("user-3") },
        a \in { Obj([enrolled |-> Bool(TRUE)]), Obj(NoProps) } }

\* what fetchConfig rejects with (network error, bad status or timeout)
FetchFailed == Thrown("Failed to fetch config")

\* listeners by what they do when invoked: return, throw, or call their own
\* unsubscribe function
ListenerPool == {"plain", "throwing", "once"}

\* startRefresh(): the interval is set unless refresh is disabled or apiUrl
\* or apiKey is missing
startRefresh_always(c) == [c EXCEPT !.refreshTimer = c.remote]

startRefresh(c) == [c EXCEPT !.refreshTimer = c.enableRefresh /\ c.remote]

\* the state createFlagClient leaves: a client constructed with a static,
\* bootstrap or fetched configuration, then startRefresh()
InitClient ==
    /\ config \in { Evaluator(c) : c \in ClientConfigs }
    /\ last = NoCall
    /\ history = History(FALSE, NoCall, 0)
    /\ input = <<>>
    /\ request = NoRequest
    /\ db = NoFlags
    /\ client \in { startRefresh(Client(web, remote, enableRefresh, TRUE, FALSE)) :
                        web \in BOOLEAN, remote \in BOOLEAN,
                        enableRefresh \in BOOLEAN }

\* getBool(flagKey, context)
getBool(flagKey, context) ==
    IF client.isClosed THEN ClientIsClosed ELSE evalBool(flagKey, context)

\* getVariant(flagKey, context)
getVariant(flagKey, context) ==
    IF client.isClosed THEN ClientIsClosed ELSE evalVariant(flagKey, context)

\* isReady()
isReady_initialized == Bool(client.isInitialized)

isReady == Bool(client.isInitialized /\ ~client.isClosed)

\* refresh() up to its await: what the call returns, a rejection or a
\* promise that is pending while fetchConfig runs
refresh ==
    IF client.isClosed THEN ClientIsClosed
    ELSE IF ~client.remote THEN CannotRefresh
    ELSE Pending

\* the sequence without its k-th element
Without(seq, k) == SubSeq(seq, 1, k - 1) \o SubSeq(seq, k + 1, Len(seq))

\* listeners.indexOf(listener), 1-based, 0 when absent
indexOf(listeners, listener) ==
    IF \E k \in 1..Len(listeners) : listeners[k] = listener
    THEN CHOOSE k \in 1..Len(listeners) :
             /\ listeners[k] = listener
             /\ \A j \in 1..(k - 1) : listeners[j] # listener
    ELSE 0

\* the function onConfigUpdate returned: splice the listener out if present
unsubscribe(listeners, listener) ==
    IF indexOf(listeners, listener) > 0
    THEN Without(listeners, indexOf(listeners, listener))
    ELSE listeners

\* the listeners array once the listener has run
afterListener(listeners, listener) ==
    IF listener = "once" THEN unsubscribe(listeners, listener) ELSE listeners

\* notifyListeners(): this.listeners.forEach with try/catch around each
\* call.  forEach visits the indices below the length the array had at the
\* start and skips an index the array no longer has.  Gives the listeners
\* invoked, in order, and the array afterwards.
RECURSIVE forEachFrom(_, _, _, _)
forEachFrom(k, len, listeners, invoked) ==
    IF k > len THEN <<invoked, listeners>>
    ELSE IF k > Len(listeners) THEN forEachFrom(k + 1, len, listeners, invoked)
    ELSE forEachFrom(k + 1, len, afterListener(listeners, listeners[k]),
                     Append(invoked, listeners[k]))

notifyListeners(listeners) == forEachFrom(1, Len(listeners), listeners, <<>>)

\* the in-flight refreshes once the k-th has installed its response: the
\* ones started before it are overtaken
Overtaking(fetching, k) ==
    Without([j \in 1..Len(fetching) |->
                 IF j < k /\ client.record
                 THEN Fetch(fetching[j].timer, TRUE) ELSE fetching[j]], k)

\* what an observed client keeps, and what another client keeps instead
Observed(value, unobserved) == IF client.record THEN value ELSE unobserved

GetBool(inputs) ==
    \E args \in inputs :
        /\ last' = Call("getBool", args, getBool(args[1], args[2]))
        /\ UNCHANGED <<config, history, input, client, request, db>>

GetVariant(inputs) ==
    \E args \in inputs :
        /\ last' = Call("getVariant", args, getVariant(args[1], args[2]))
        /\ UNCHANGED <<config, history, input, client, request, db>>

IsReady ==
    /\ last' = Call("isReady", <<>>, isReady)
    /\ UNCHANGED <<config, history, input, client, request, db>>

\* refresh() called by the application
Refresh ==
    /\ refresh = Pending => Len(client.fetching) < MaxFetches
    /\ last' = Call("refresh", <<>>, refresh)
    /\ client' = IF refresh = Pending
                 THEN [client EXCEPT !.fetching = Append(@, Fetch(FALSE, FALSE))]
                 ELSE client
    /\ UNCHANGED <<config, history, input, request, db>>

\* the interval callback of startRefresh: refresh() inside try/catch
RefreshTimerFires ==
    /\ client.refreshTimer
    /\ refresh = Pending => Len(client.fetching) < MaxFetches
    /\ client' = IF refresh = Pending
                 THEN [client EXCEPT !.fetching = Append(@, Fetch(TRUE, FALSE))]
                 ELSE client
    /\ UNCHANGED <<config, last, history, input, request, db>>

\* a refresh that stops its interval when its fetch fails
FetchConfigRejects_stopsTimer ==
    \E k \in 1..Len(client.fetching) :
        /\ client' = [client EXCEPT
               !.fetching = Without(@, k),
               !.refreshTimer = FALSE,
               !.settled = Observed(
                               Settled(client.fetching[k].timer, FetchFailed,
                                       IF client.fetching[k].timer THEN Undefined
                                       ELSE FetchFailed), @)]
        /\ UNCHANGED <<config, last, history, input, request, db>>

\* fetchConfig rejects (network error, bad status, timeout) and so does the
\* refresh() awaiting it; the interval callback catches and logs the error
FetchConfigRejects ==
    \E k \in 1..Len(client.fetching) :
        /\ client' = [client EXCEPT
               !.fetching = Without(@, k),
               !.settled = Observed(
                               Settled(client.fetching[k].timer, FetchFailed,
                                       IF client.fetching[k].timer THEN Undefined
                                       ELSE FetchFailed), @)]
        /\ UNCHANGED <<config, last, history, input, request, db>>

\* fetchConfig resolves with a configuration and the refresh() awaiting it
\* continues: the evaluator is replaced, and the web client notifies its
\* listeners
FetchConfigResolves ==
    \E k \in 1..Len(client.fetching), newConfig \in ClientConfigs :
        /\ config' = replaceEvaluator(config, newConfig)
        /\ client' = [client EXCEPT
               !.fetching = Overtaking(@, k),
               !.settled = Observed(
                               Settled(client.fetching[k].timer, newConfig, Undefined), @),
               !.stale = /\ client.fetching[k].overtaken
                         /\ newConfig # config \/ client.stale,
               !.notified = Observed(notifyListeners(client.listeners)[1], @),
               !.listeners = notifyListeners(@)[2]]
        /\ UNCHANGED <<last, history, input, request, db>>

\* WebFlagClient.updateConfig(config)
UpdateConfig ==
    \E newConfig \in ClientConfigs :
        /\ client.web
        /\ IF client.isClosed
           THEN /\ last' = Call("updateConfig", <<newConfig>>, ClientIsClosed)
                /\ UNCHANGED <<config, client, request, db>>
           ELSE /\ last' = Call("updateConfig", <<newConfig>>, Undefined)
                /\ config' = replaceEvaluator(config, newConfig)
                /\ client' = [client EXCEPT
                       !.stale = FALSE,
                       !.notified = Observed(notifyListeners(client.listeners)[1], @),
                       !.listeners = notifyListeners(@)[2]]
        /\ UNCHANGED <<history, input, request, db>>

\* WebFlagClient.onConfigUpdate(listener), for a listener not yet subscribed
OnConfigUpdate(pool) ==
    \E listener \in pool :
        /\ client.web
        /\ Len(client.listeners) < MaxListeners
        /\ indexOf(client.listeners, listener) = 0
        /\ client' = [client EXCEPT !.listeners = Append(@, listener)]
        /\ last' = Call("onConfigUpdate", <<listener>>, Fun("unsubscribe"))
        /\ UNCHANGED <<config, history, input, request, db>>

\* the function onConfigUpdate returned, called by the application
Unsubscribe(pool) ==
    \E listener \in pool :
        /\ client.web
        /\ indexOf(client.listeners, listener) > 0
        /\ client' = [client EXCEPT !.listeners = unsubscribe(@, listener)]
        /\ UNCHANGED <<config, last, history, input, request, db>>

\* close(): the interval is cleared, the web client drops its listeners
Close ==
    /\ client' = [client EXCEPT !.refreshTimer = FALSE,
                                !.listeners = <<>>,
                                !.isClosed = TRUE]
    /\ last' = Call("close", <<>>, Undefined)
    /\ UNCHANGED <<config, history, input, request, db>>

NextClient ==
    \/ GetBool(ClientKeys \X ClientContexts)
    \/ GetVariant(ClientKeys \X ClientContexts)
    \/ HasFlag(ClientKeys)
    \/ GetFlagKeys
    \/ GetConfig
    \/ IsReady
    \/ Refresh
    \/ RefreshTimerFires
    \/ FetchConfigRejects
    \/ FetchConfigResolves
    \/ UpdateConfig
    \/ OnConfigUpdate({"plain"})
    \/ Unsubscribe({"plain"})
    \/ Close

SpecClient == InitClient /\ [][NextClient]_vars

----------------------------------------------------------------------------
(* Refreshes of an observed client: overlapping refresh() calls made by    *)
(* the application and by the interval, settling in any order, and close.  *)

RefreshInputs ==
    {"rollout-flag"} \X
        { Context(Str("user-1"), Obj([enrolled |-> Bool(TRUE)])) }

InitRefresh ==
    /\ config \in { Evaluator(c) : c \in ClientConfigs }
    /\ last = NoCall
    /\ history = History(FALSE, NoCall, 0)
    /\ input = <<>>
    /\ request = NoRequest
    /\ db = NoFlags
    /\ client \in { startRefresh(Client(web, remote, enableRefresh, TRUE, TRUE)) :
                        web \in BOOLEAN, remote \in BOOLEAN,
                        enableRefresh \in BOOLEAN }

NextRefresh ==
    \/ GetBool(RefreshInputs)
    \/ HasFlag({"test-flag"})
    \/ GetFlagKeys
    \/ GetConfig
    \/ Refresh
    \/ RefreshTimerFires
    \/ FetchConfigRejects
    \/ FetchConfigResolves
    \/ Close

SpecRefresh == InitRefresh /\ [][NextRefresh]_vars

----------------------------------------------------------------------------
(* Listeners of an observed web client: subscriptions, updateConfig and    *)
(* refreshes that notify, and listeners that throw or unsubscribe.         *)

InitListeners ==
    /\ config \in { Evaluator(c) : c \in ClientConfigs }
    /\ last = NoCall
    /\ history = History(FALSE, NoCall, 0)
    /\ input = <<>>
    /\ request = NoRequest
    /\ db = NoFlags
    /\ client \in { startRefresh(Client(TRUE, remote, FALSE, TRUE, TRUE)) :
                        remote \in BOOLEAN }

NextListeners ==
    \/ GetConfig
    \/ Refresh
    \/ FetchConfigRejects
    \/ FetchConfigResolves
    \/ UpdateConfig
    \/ OnConfigUpdate(ListenerPool)
    \/ Unsubscribe(ListenerPool)
    \/ Close

SpecListeners == InitListeners /\ [][NextListeners]_vars

----------------------------------------------------------------------------
(* fetchConfig(apiUrl, apiKey, timeout, fetchFn), called with any fetch    *)
(* function: one that resolves or rejects at any time, with any response   *)
(* or error, whether or not it takes notice of the abort signal.           *)

\* options.timeout as given, or not given: timeout = 5000
Timeouts == { Undefined, Number(50) }

timeoutOrDefault(timeout) == IF timeout = Undefined THEN 5000 ELSE timeout.v

\* the instants at which something happens, in ms since the call
Instants == {0, 40, 50, 100, 5000, 5050}

\* an Error object, and a value that is not an Error
Error(name, message) == [t |-> "error", name |-> name, message |-> message]

\* what a fetch function or response.json() can reject with
Rejections ==
    { Error("AbortError", "The operation was aborted"),
      Error("TypeError", "Network error"),
      Error("SyntaxError", "Unexpected token"),
      Str("abc") }

\* a Response by its ok flag
Responses == BOOLEAN

TimeoutMessage(timeout) ==
    "Config fetch timeout after " \o ToString(timeout) \o "ms"

\* the catch block of fetchConfig: what it throws for what it caught
rethrown(error, timeout) ==
    IF error.t = "error"
    THEN IF error.name = "AbortError"
         THEN Thrown(Error("Error", TimeoutMessage(timeout)))
         ELSE Thrown(error)
    ELSE Thrown(Error("Error", "Unknown error fetching config"))

\* if (!response.ok) throw new Error(`Failed to fetch config: ...`), which
\* the catch block throws again
BadStatus == Error("Error", "Failed to fetch config: 500 Internal Server Error")

InitFetch ==
    /\ config = Obj(NoProps)
    /\ last = NoCall
    /\ history = History(FALSE, NoCall, 0)
    /\ input \in Timeouts
    /\ request = NoRequest
    /\ db = NoFlags
    /\ client = NoClient

\* fetchConfig is called: the AbortController is made, the timeout is set,
\* fetchFn is called and awaited
FetchConfig ==
    /\ request.pc = "idle"
    /\ request' = Request("fetching", timeoutOrDefault(input), 0, TRUE, FALSE,
                          Undefined, 0)
    /\ last' = Call("fetchConfig", <<input>>, Pending)
    /\ UNCHANGED <<config, history, input, client, db>>

\* time passes while the call is in progress; the timeout callback runs
\* controller.abort() when its time has come and it was not cleared
TimePasses ==
    \E t \in Instants :
        /\ request.pc \in {"fetching", "reading"}
        /\ t > request.now
        /\ request' = [request EXCEPT
               !.now = t,
               !.armed = @ /\ t < request.timeout,
               !.aborted = @ \/ (request.armed /\ t >= request.timeout)]
        /\ UNCHANGED <<config, last, history, input, client, db>>

\* fetchFn resolves with a response: clearTimeout, then the status check
FetchFnResolves ==
    \E ok \in Responses :
        /\ request.pc = "fetching"
        /\ request' = IF ok
                      THEN [request EXCEPT !.pc = "reading", !.armed = FALSE]
                      ELSE [request EXCEPT
                               !.pc = "rejected", !.armed = FALSE,
                               !.result = rethrown(BadStatus, request.timeout),
                               !.settledAt = request.now]
        /\ UNCHANGED <<config, last, history, input, client, db>>

\* fetchFn rejects: the catch block clears the timeout and throws
FetchFnRejects ==
    \E error \in Rejections :
        /\ request.pc = "fetching"
        /\ request' = [request EXCEPT
               !.pc = "rejected", !.armed = FALSE,
               !.result = rethrown(error, request.timeout),
               !.settledAt = request.now]
        /\ UNCHANGED <<config, last, history, input, client, db>>

\* response.json() resolves: fetchConfig returns the configuration
JsonResolves ==
    \E fetched \in ClientConfigs :
        /\ request.pc = "reading"
        /\ request' = [request EXCEPT
               !.pc = "resolved", !.result = fetched,
               !.settledAt = request.now]
        /\ UNCHANGED <<config, last, history, input, client, db>>

\* response.json() rejects: the catch block throws
JsonRejects ==
    \E error \in Rejections :
        /\ request.pc = "reading"
        /\ request' = [request EXCEPT
               !.pc = "rejected",
               !.result = rethrown(error, request.timeout),
               !.settledAt = request.now]
        /\ UNCHANGED <<config, last, history, input, client, db>>

NextFetch ==
    \/ FetchConfig
    \/ TimePasses
    \/ FetchFnResolves
    \/ FetchFnRejects
    \/ JsonResolves
    \/ JsonRejects

SpecFetch == InitFetch /\ [][NextFetch]_vars

----------------------------------------------------------------------------
(* The API: the flag routes and the SDK configuration route over the       *)
(* flags table, for two environments with one API key each.  A handler     *)
(* runs to its reply without awaiting anything (better-sqlite3 is          *)
(* synchronous), so a request is one step.  created_at and updated_at are  *)
(* not kept.                                                               *)

MaxFlags == 2

\* the environments table: no route changes it
Environments ==
    { [id |-> "env-1", apiKey |-> "tk_1"], [id |-> "env-2", apiKey |-> "tk_2"] }

\* where a request can carry an API key
QueryApiKeys == { Undefined, Str("tk_1") }
BodyApiKeys == { Number(1), Str("tk_2") }
AuthorizationHeaders == { Undefined, Str("Bearer tk_0") }

\* body.key and body.config of a request
BodyKeys == { Undefined, Str("flag-a"), Str("flag-b") }
BodyConfigs ==
    { Undefined, Str("not valid json"),
      Str("{\"defaultValue\":false}"), Str("{\"defaultValue\":true}") }

\* params.id: the ids that createFlag gives out
FlagIds == 1..MaxFlags

\* JSON.parse of the texts above
JSONparse(text) ==
    CASE text = "{\"defaultValue\":false}" ->
             Obj([defaultValue |-> Bool(FALSE)])
      [] text = "{\"defaultValue\":true}" ->
             Obj([defaultValue |-> Bool(TRUE)])
      [] OTHER -> Thrown("SyntaxError")

\* authHeader.substring(7) of the headers above
substring7(header) == IF header = "Bearer tk_0" THEN "tk_0" ELSE ""

startsWithBearer(header) == header = "Bearer tk_0"

extractApiKey(query, body, header) ==
    IF Truthy(query) /\ query.t = "string" THEN query
    ELSE IF Truthy(body) /\ body.t = "string" THEN body
    ELSE IF header # Undefined /\ startsWithBearer(header.v)
         THEN Str(substring7(header.v))
    ELSE Undefined

findEnvironmentByApiKey(apiKey) ==
    IF \E e \in Environments : e.apiKey = apiKey
    THEN CHOOSE e \in Environments : e.apiKey = apiKey
    ELSE Null

\* a reply: its status and its body, which is a message, a flag, a list
\* of flags or a FlagConfig
Reply(status, body) == [status |-> status, body |-> body]

Message(text) == [t |-> "message", v |-> text]

FlagResponse(flag) == [t |-> "flag", v |-> flag]

FlagResponses(flags) == [t |-> "flags", v |-> flags]

\* a handler's reply and the database it leaves
Answer(reply, d) == [reply |-> reply, db |-> d]

\* authenticateApiKey: the environment attached to the request, or the
\* reply sent instead
authenticateApiKey(apiKey) ==
    IF ~Truthy(apiKey) THEN Reply(401, Message("API key required"))
    ELSE IF findEnvironmentByApiKey(apiKey.v) = Null
         THEN Reply(401, Message("Invalid API key"))
    ELSE findEnvironmentByApiKey(apiKey.v)

hasEnvironment(authenticated) == authenticated \in Environments

\* a row of the flags table
FlagRow(id, key, cfg, envId) ==
    [id |-> id, key |-> key, config |-> cfg, envId |-> envId]

\* CREATE UNIQUE INDEX idx_flag_env_key ON flags(env_id, key): whether the
\* table accepts the row
idx_flag_env_key(flags, row) ==
    \A f \in flags : ~(f.envId = row.envId /\ f.key = row.key)

\* createFlag: the INSERT, which throws when the index refuses the row
createFlag(d, newFlag) ==
    LET row ==
            FlagRow(d.created + 1, newFlag.key, newFlag.config, newFlag.envId)
    IN  IF idx_flag_env_key(d.flags, row)
        THEN [thrown |-> FALSE, row |-> row,
              db |-> Db(d.flags \cup {row}, d.created + 1)]
        ELSE [thrown |-> TRUE, row |-> row, db |-> d]

findFlagById(flags, id) ==
    IF \E f \in flags : f.id = id
    THEN CHOOSE f \in flags : f.id = id
    ELSE Null

findFlagByKey_otherEnvironment(flags, envId, key) ==
    IF \E f \in flags : f.envId # envId /\ f.key = key
    THEN CHOOSE f \in flags : f.envId # envId /\ f.key = key
    ELSE Null

findFlagByKey(flags, envId, key) ==
    IF \E f \in flags : f.envId = envId /\ f.key = key
    THEN CHOOSE f \in flags : f.envId = envId /\ f.key = key
    ELSE Null

listFlagsByEnvironment(flags, envId) == { f \in flags : f.envId = envId }

updateFlag(flags, id, cfg) ==
    { IF f.id = id THEN [f EXCEPT !.config = cfg] ELSE f : f \in flags }

deleteFlag(flags, id) == { f \in flags : f.id # id }

\* !existing || existing.envId !== request.environment.id
notFound_anyEnvironment(existing, environment) == existing = Null

notFound(existing, environment) ==
    existing = Null \/ existing.envId # environment.id

\* the validation of body.config in POST and PUT
configProblem(cfg) ==
    IF ~Truthy(cfg) \/ cfg.t # "string" THEN "Flag config is required"
    ELSE IF JSONparse(cfg.v).t = "throw" THEN "Flag config must be valid JSON"
    ELSE ""

\* GET /v1/flags
listFlags(d, environment) ==
    Answer(Reply(200,
                 FlagResponses(listFlagsByEnvironment(d.flags,
                                                      environment.id))),
           d)

\* POST /v1/flags
postFlag(d, environment, key, cfg) ==
    IF ~Truthy(key) \/ key.t # "string"
    THEN Answer(Reply(400, Message("Flag key is required")), d)
    ELSE IF configProblem(cfg) # ""
    THEN Answer(Reply(400, Message(configProblem(cfg))), d)
    ELSE IF findFlagByKey(d.flags, environment.id, key.v) # Null
    THEN Answer(Reply(409, Message("Flag with key already exists")), d)
    ELSE LET made == createFlag(d, [key |-> key.v, config |-> cfg.v,
                                    envId |-> environment.id])
         IN  IF made.thrown
             THEN Answer(Reply(500, Message("Failed to create flag")), d)
             ELSE Answer(Reply(201, FlagResponse(made.row)), made.db)

\* GET /v1/flags/:id
getFlag(d, environment, id) ==
    IF notFound(findFlagById(d.flags, id), environment)
    THEN Answer(Reply(404, Message("Flag not found")), d)
    ELSE Answer(Reply(200, FlagResponse(findFlagById(d.flags, id))), d)

\* PUT /v1/flags/:id
putFlag(d, environment, id, cfg) ==
    IF configProblem(cfg) # ""
    THEN Answer(Reply(400, Message(configProblem(cfg))), d)
    ELSE IF notFound(findFlagById(d.flags, id), environment)
    THEN Answer(Reply(404, Message("Flag not found")), d)
    ELSE LET updated == updateFlag(d.flags, id, cfg.v)
         IN  Answer(Reply(200, FlagResponse(findFlagById(updated, id))),
                    Db(updated, d.created))

\* DELETE /v1/flags/:id
deleteFlagById(d, environment, id) ==
    IF notFound(findFlagById(d.flags, id), environment)
    THEN Answer(Reply(404, Message("Flag not found")), d)
    ELSE Answer(Reply(200, Message("success")),
                Db(deleteFlag(d.flags, id), d.created))

\* GET /v1/config: the FlagConfig built from the environment's rows
getConfigOf(d, environment) ==
    LET rows == { f \in listFlagsByEnvironment(d.flags, environment.id) :
                      JSONparse(f.config).t # "throw" }
        keys == { f.key : f \in rows }
    IN  Answer(Reply(200,
                Obj([k \in keys |->
                        JSONparse((CHOOSE f \in rows : f.key = k).config)])),
               d)

\* the handler of a route
handle(route, d, environment, target, cfg) ==
    CASE route = "GET /v1/flags" -> listFlags(d, environment)
      [] route = "POST /v1/flags" -> postFlag(d, environment, target, cfg)
      [] route = "GET /v1/flags/:id" -> getFlag(d, environment, target.v)
      [] route = "PUT /v1/flags/:id" ->
             putFlag(d, environment, target.v, cfg)
      [] route = "DELETE /v1/flags/:id" ->
             deleteFlagById(d, environment, target.v)
      [] route = "GET /v1/config" -> getConfigOf(d, environment)

InitApi ==
    /\ config = Obj(NoProps)
    /\ last = NoCall
    /\ history = History(FALSE, NoCall, 0)
    /\ input = <<>>
    /\ request = NoRequest
    /\ db = NoFlags
    /\ client = NoClient

\* the API keys a request carries: in the query, in the body, in the
\* Authorization header.  The key of the first environment is sent in the
\* query, that of the second in the body, an unknown key in the header.
Credentials ==
    { c \in QueryApiKeys \X BodyApiKeys \X AuthorizationHeaders :
        \/ c[1] # Undefined /\ c[2] # Number(1) /\ c[3] = Undefined
        \/ c[1] = Undefined /\ c[2] # Number(1) /\ c[3] # Undefined
        \/ c[1] = Undefined /\ c[2] = Number(1) }

\* a request is served: the preHandler authenticates, and the handler runs
\* if an environment was attached.  The call recorded is the route, the
\* environment (or Null), the key or id addressed and the body's config.
served(route, d, credentials, target, cfg) ==
    LET authenticated ==
            authenticateApiKey(extractApiKey(credentials[1], credentials[2],
                                             credentials[3]))
    IN  IF hasEnvironment(authenticated)
        THEN LET answer == handle(route, d, authenticated, target, cfg)
             IN  [call |-> Call(route, <<authenticated, target, cfg>>,
                                answer.reply),
                  db |-> answer.db]
        ELSE [call |-> Call(route, <<Null, target, cfg>>, authenticated),
              db |-> d]

GetFlags ==
    \E credentials \in Credentials :
        /\ last' = served("GET /v1/flags", db, credentials, Undefined,
                          Undefined).call
        /\ UNCHANGED <<config, history, input, client, request, db>>

PostFlags ==
    \E credentials \in Credentials, key \in BodyKeys, cfg \in BodyConfigs :
        LET done == served("POST /v1/flags", db, credentials, key, cfg)
        IN  /\ done.db.created <= MaxFlags
            /\ last' = done.call
            /\ db' = done.db
            /\ UNCHANGED <<config, history, input, client, request>>

GetFlagById ==
    \E credentials \in Credentials, id \in FlagIds :
        /\ last' = served("GET /v1/flags/:id", db, credentials, Number(id),
                          Undefined).call
        /\ UNCHANGED <<config, history, input, client, request, db>>

PutFlagById ==
    \E credentials \in Credentials, id \in FlagIds, cfg \in BodyConfigs :
        LET done == served("PUT /v1/flags/:id", db, credentials, Number(id),
                           cfg)
        IN  /\ last' = done.call
            /\ db' = done.db
            /\ UNCHANGED <<config, history, input, client, request>>

DeleteFlagById ==
    \E credentials \in Credentials, id \in FlagIds :
        LET done == served("DELETE /v1/flags/:id", db, credentials, Number(id),
                           Undefined)
        IN  /\ last' = done.call
            /\ db' = done.db
            /\ UNCHANGED <<config, history, input, client, request>>

GetConfigRoute ==
    \E credentials \in Credentials :
        /\ last' = served("GET /v1/config", db, credentials, Undefined,
                          Undefined).call
        /\ UNCHANGED <<config, history, input, client, request, db>>

NextApi ==
    \/ GetFlags
    \/ PostFlags
    \/ GetFlagById
    \/ PutFlagById
    \/ DeleteFlagById
    \/ GetConfigRoute

SpecApi == InitApi /\ [][NextApi]_vars

----------------------------------------------------------------------------
(* Properties of the rollout hasher (SpecHash).                            *)

\* the string that computeRolloutBucket hashes for the input
Combined == input[1] \o <<Colon>> \o input[2]

\* h * 31 + c, reduced into -2^31 .. 2^31 - 1
Times31Plus(h, c) ==
    LET low  == h.lo * 31 + c
        high == ((h.hi % W16) * 31 + (low \div W16)) % W16
    IN  Num(IF high >= 32768 THEN high - W16 ELSE high, low % W16)

RECURSIVE PolyHash(_, _)
\* the multiply-by-31 rolling hash of the first n code units of str
PolyHash(str, n) ==
    IF n = 0 THEN Num(0, 0)
    ELSE LET prev == PolyHash(str, n - 1)
         IN  CASE IsInt32(prev) -> Times31Plus(prev, str[n])

\* |h| mod 101
AbsMod101(h) ==
    LET r == ((h.hi % 101) * (W16 % 101) + h.lo) % 101
    IN  IF h.hi < 0 THEN (101 - r) % 101 ELSE r

HashCalled == last.op = "computeRolloutBucket"

\* C3: computeRolloutBucket returns an integer in 0..100 for every pair of
\* strings, two empty strings and a hash of -2^31 included.
BucketRange ==
    HashCalled => last.result.t = "number" /\ last.result.v \in 0..100

\* C3 witness: the hasher was called on strings whose signed hash is -2^31.
BucketRangeWitness ==
    HashCalled /\ PolyHash(Combined, Len(Combined)) = Num(-32768, 0)

\* C4: computeRolloutBucket(userId, flagKey) equals |H| mod 101 where H is
\* the h := h*31 + charCode hash, wrapped to 32 signed bits, of
\* userId + ":" + flagKey.
HashAlgorithm ==
    HashCalled =>
        last.result = Number(AbsMod101(PolyHash(Combined, Len(Combined))))

\* C4 witness: the hasher was called on a string whose hash wrapped around
\* to a negative value.
HashAlgorithmWitness ==
    HashCalled /\ Len(Combined) >= 5 /\ PolyHash(Combined, Len(Combined)).hi < 0

----------------------------------------------------------------------------
(* Properties of the Evaluator (Spec).                                     *)

Evaluated == last.op \in {"evalBool", "evalVariant"}

\* the arguments of the last evaluation
FlagKey == last.args[1]
Ctx     == last.args[2]
UserId  == GetProperty(Ctx, "userId")

\* the last evaluation returned a result (it did not raise)
Returned == Evaluated /\ last.result.t = "object"

Reason    == GetProperty(last.result, "reason")
Value     == GetProperty(last.result, "value")
Metadata  == GetProperty(last.result, "metadata")
RuleIndex == GetProperty(Metadata, "ruleIndex")
Bucket    == GetProperty(Metadata, "bucket")

\* the flag key is a key of the configuration
Configured(flagKey) == flagKey \in DOMAIN config.v

\* the rule list of a configured flag (empty when it declares none)
RulesOf(flagKey) ==
    LET rules == GetProperty(config.v[flagKey], "rules")
    IN  IF rules.t = "array" THEN rules.v ELSE <<>>

DefaultOf(flagKey) == GetProperty(config.v[flagKey], "defaultValue")

Percentage(rule) == GetProperty(rule, "percentage")

\* the rule restricts its matches to a percentage of the users
Restricted(rule) == Percentage(rule).t = "number" /\ Percentage(rule).v < 100

\* every condition of the rule matches the context
ConditionsAllMatch(rule, context) ==
    LET conditions == GetProperty(rule, "conditions")
    IN  conditions.t = "array" =>
            \A k \in 1..Len(conditions.v) :
                LET r == evaluateCondition(conditions.v[k], context)
                IN  r.t = "boolean" /\ r.v

\* the bucket of the context's user for the flag
BucketFor(context, flagKey) ==
    computeRolloutBucket(CodeUnits[GetProperty(context, "userId").v],
                         CodeUnits[flagKey])

\* the rule's rollout check, if any, passes
RolloutPasses(rule, context, flagKey) ==
    Restricted(rule) =>
        /\ Truthy(GetProperty(context, "userId"))
        /\ BucketFor(context, flagKey) <= Percentage(rule).v

RuleMatches(rule, context, flagKey) ==
    ConditionsAllMatch(rule, context) /\ RolloutPasses(rule, context, flagKey)

\* the flag with only its first n rules
Truncated(flag, n) ==
    Obj([flag.v EXCEPT !.rules = Arr(SubSeq(flag.v.rules.v, 1, n))])

\* C1: a result carrying ruleIndex = i was produced by the smallest index
\* whose rule matches (conditions and rollout check): the rules before it
\* do not match, and the rules after it have no influence on the result.
FirstMatchWins ==
    (Returned /\ RuleIndex.t = "number") =>
        LET i     == RuleIndex.v
            rules == RulesOf(FlagKey)
            cut   == Truncated(config.v[FlagKey], i + 1)
        IN  /\ Configured(FlagKey)
            /\ i \in 0..(Len(rules) - 1)
            /\ RuleMatches(rules[i + 1], Ctx, FlagKey)
            /\ \A j \in 0..(i - 1) : ~RuleMatches(rules[j + 1], Ctx, FlagKey)
            /\ last.result = IF last.op = "evalBool"
                             THEN evalBoolRules(cut, 0, Ctx, FlagKey)
                             ELSE evalVariantRules(cut, 0, Ctx, FlagKey)

\* C1 witness: two rules both match the context and the result carries
\* the lower index.
FirstMatchWinsWitness ==
    /\ Returned
    /\ RuleIndex = Number(0)
    /\ Len(RulesOf(FlagKey)) >= 2
    /\ RuleMatches(RulesOf(FlagKey)[2], Ctx, FlagKey)

\* what the claims compare of two outcomes of an evaluation: whether it
\* raised, and the value, the reason and the recorded bucket of its result
Outcome(result) ==
    IF result.t # "object" THEN <<result>>
    ELSE <<GetProperty(result, "value"), GetProperty(result, "reason"),
           GetProperty(GetProperty(result, "metadata"), "bucket")>>

\* the last evaluation repeats the first evaluation of the history
RepeatsFirst ==
    /\ history.on
    /\ history.calls >= 2
    /\ Evaluated
    /\ last.op = history.first.op
    /\ last.args = history.first.args

Reached(flagKey, j, context) ==
    \A k \in 1..(j - 1) : ~RuleMatches(RulesOf(flagKey)[k], context, flagKey)

\* the threshold rule for the contexts that count as supplying a userId:
\* a reached rule whose conditions match and whose percentage p is below
\* 100 wins exactly when the bucket of (userId, flagKey) is at most p, and
\* the result then has reason 'rollout' and records that bucket
Threshold(supplied) ==
    (Returned /\ Configured(FlagKey) /\ supplied) =>
        \A j \in 1..Len(RulesOf(FlagKey)) :
            LET rule == RulesOf(FlagKey)[j]
                wins == RuleIndex = Number(j - 1)
            IN  (/\ Reached(FlagKey, j, Ctx)
                 /\ ConditionsAllMatch(rule, Ctx)
                 /\ Restricted(rule)) =>
                    /\ wins <=> BucketFor(Ctx, FlagKey) <= Percentage(rule).v
                    /\ wins => /\ Reason = Str("rollout")
                               /\ Bucket = Number(BucketFor(Ctx, FlagKey))

\* C5 as stated: the threshold rule for every context that has a userId,
\* the empty string included.
RolloutThresholdAnyUserId ==
    Threshold(UserId.t = "string")

\* C5, amended: when a rule's conditions all match, its percentage p is
\* below 100 and the context supplies a non-empty userId, the rule matches
\* if and only if computeRolloutBucket(userId, flagKey) <= p; on a match the
\* result has reason 'rollout' and metadata.bucket equal to that bucket,
\* which is a function of userId and the flag key only.
RolloutThreshold ==
    Threshold(UserId.t = "string" /\ UserId.v # "")

\* C5 witness: a user whose bucket equals the percentage of the rule is
\* matched by it, and the result records the bucket.
RolloutThresholdWitness ==
    /\ Returned
    /\ RuleIndex.t = "number"
    /\ Percentage(RulesOf(FlagKey)[RuleIndex.v + 1]) = Number(50)
    /\ Reason = Str("rollout")
    /\ Bucket = Number(50)

\* the context of the last evaluation has no usable userId (none, or '')
LacksUserId == ~Truthy(UserId)

\* evaluating some condition of some rule of the flag raises in the context
SomeConditionRaises(flagKey, context) ==
    \E j \in 1..Len(RulesOf(flagKey)) :
        LET conditions == GetProperty(RulesOf(flagKey)[j], "conditions")
        IN  /\ conditions.t = "array"
            /\ \E k \in 1..Len(conditions.v) :
                   IsThrown(evaluateCondition(conditions.v[k], context))

\* no rule of the flag matches the context
NoRuleMatches(flagKey, context) ==
    \A j \in 1..Len(RulesOf(flagKey)) :
        ~RuleMatches(RulesOf(flagKey)[j], context, flagKey)

\* the value the operation reports for the flag's default
ReportedDefault(op, flagKey) ==
    IF op = "evalBool" THEN Bool(Truthy(DefaultOf(flagKey)))
                       ELSE Str(String(DefaultOf(flagKey)))

\* the last result is the default result: no metadata, hence no ruleIndex
\* and no bucket
IsDefaultResult(value) ==
    /\ Returned
    /\ Reason = Str("default")
    /\ Value = value
    /\ Metadata = Undefined

\* C6: for a context without userId and a configured flag, (1) a result
\* never carries the index of a rule whose percentage is below 100,
\* whatever the rule's conditions; (2) the missing userId raises nothing:
\* the evaluation returns unless a condition raises; (3) evaluation moves
\* on to the later rules, and when none of them matches the result is the
\* flag's default with reason 'default'.
RolloutExclusion ==
    (Evaluated /\ Configured(FlagKey) /\ LacksUserId) =>
        /\ (Returned /\ RuleIndex.t = "number") =>
               ~Restricted(RulesOf(FlagKey)[RuleIndex.v + 1])
        /\ ~Returned => SomeConditionRaises(FlagKey, Ctx)
        /\ (Returned /\ NoRuleMatches(FlagKey, Ctx)) =>
               IsDefaultResult(ReportedDefault(last.op, FlagKey))

\* C6 witness: no userId, the first rule has its conditions matched and a
\* percentage below 100, and the evaluation returned the default.
RolloutExclusionWitness ==
    /\ Evaluated /\ Configured(FlagKey)
    /\ UserId = Undefined
    /\ Len(RulesOf(FlagKey)) >= 1
    /\ Restricted(RulesOf(FlagKey)[1])
    /\ ConditionsAllMatch(RulesOf(FlagKey)[1], Ctx)
    /\ Returned
    /\ Reason = Str("default")

\* C7: a reached rule whose conditions all match and that has no
\* percentage, or a percentage of 100 or more, wins for every context, with
\* or without userId: the result carries its index, reason 'rule_match'
\* and no bucket.
UnrestrictedRuleMatches ==
    (Returned /\ Configured(FlagKey)) =>
        \A j \in 1..Len(RulesOf(FlagKey)) :
            LET rule == RulesOf(FlagKey)[j]
            IN  (/\ Reached(FlagKey, j, Ctx)
                 /\ ConditionsAllMatch(rule, Ctx)
                 /\ ~Restricted(rule)) =>
                    /\ RuleIndex = Number(j - 1)
                    /\ Reason = Str("rule_match")
                    /\ Bucket = Undefined

\* C7 witness: a context without userId is matched by a rule whose
\* percentage is 100 or more.
UnrestrictedRuleMatchesWitness ==
    /\ Returned
    /\ UserId = Undefined
    /\ RuleIndex.t = "number"
    /\ Percentage(RulesOf(FlagKey)[RuleIndex.v + 1]).t = "number"
    /\ Percentage(RulesOf(FlagKey)[RuleIndex.v + 1]).v >= 100
    /\ Reason = Str("rule_match")

\* C8: for a flag key that is not a key of the configuration, evalBool
\* returns value false and evalVariant the string 'default', with reason
\* 'flag_not_found' and a metadata.error that names the key and says it was
\* not found; nothing is raised.
FlagNotFound ==
    (Evaluated /\ ~Configured(FlagKey)) =>
        /\ Returned
        /\ Value = IF last.op = "evalBool" THEN Bool(FALSE) ELSE Str("default")
        /\ Reason = Str("flag_not_found")
        /\ GetProperty(Metadata, "error") =
               Str("Flag \"" \o FlagKey \o "\" not found in configuration")

EvaluationReasons ==
    {"default", "rule_match", "rollout", "rollout_excluded", "flag_not_found"}

\* C10: evalBool and evalVariant never raise: for every flag key and every
\* context they return a result whose reason is an EvaluationReason.
NeverThrows ==
    Evaluated =>
        /\ Returned
        /\ Reason.t = "string"
        /\ Reason.v \in EvaluationReasons

----------------------------------------------------------------------------
(* Properties of the condition matcher (SpecCond).                         *)

ConditionCalled == last.op = "evaluateCondition"

\* the condition and the context of the last call of evaluateCondition
TheCondition == last.args[1]
Attribute    == GetProperty(TheCondition, "attribute").v
Operator     == GetProperty(TheCondition, "operator").v
Comparison   == GetProperty(TheCondition, "value")
CondContext  == last.args[2]

\* the context of the last call has an attributes map
HasAttributesMap == GetProperty(last.args[2], "attributes").t = "object"

\* what the attribute of the last condition resolves to in its context
Resolved == getAttributeValue(CondContext, Attribute)

\* the attribute of the last condition is present in its context
Present == HasAttributesMap /\ Resolved # Undefined

\* C11: when the attribute resolves to not-found, a 'neq' condition matches
\* exactly when its comparison value is defined, and a condition with any
\* other operator, recognized or not, does not match.
MissingAttribute ==
    (ConditionCalled /\ HasAttributesMap /\ Resolved = Undefined) =>
        last.result = Bool(Operator = "neq" /\ Comparison # Undefined)

\* C11 witness: 'neq' with a defined value on a path whose last segment is
\* missing matches.
MissingAttributeWitness ==
    /\ ConditionCalled /\ HasAttributesMap
    /\ Attribute = "user.missing"
    /\ Operator = "neq"
    /\ Comparison = Str("abc")
    /\ last.result = Bool(TRUE)

\* the outcome of the last condition with another operator
WithOperator(operator) ==
    evaluateCondition(Condition(Attribute, operator, Comparison), CondContext)

\* the outcome of 'eq' with the attribute value and the comparison value
\* of the last condition in each other's place
Swapped ==
    evaluateCondition(Condition("age", "eq", Resolved),
                      Context(Undefined, Obj([age |-> Comparison])))

\* C12: on a present attribute, 'eq' matches when the attribute and the
\* comparison value are identical, or when neither is null or undefined
\* and their string representations are equal; 'eq' gives the same answer
\* with the two values exchanged; 'neq' is the negation of 'eq'.
LooseEquality ==
    (ConditionCalled /\ Present) =>
        /\ Operator = "eq" =>
               /\ (\/ Resolved = Comparison
                   \/ /\ ~IsNullish(Resolved) /\ ~IsNullish(Comparison)
                      /\ String(Resolved) = String(Comparison))
                      => last.result = Bool(TRUE)
               /\ Comparison # Undefined => last.result = Swapped
        /\ Operator = "neq" => last.result = Bool(~WithOperator("eq").v)

\* C12 witness: the number 25 equals the string "25".
LooseEqualityWitness ==
    /\ ConditionCalled /\ Present
    /\ Operator = "eq"
    /\ Resolved = Number(25)
    /\ Comparison = Str("25")
    /\ last.result = Bool(TRUE)

\* the own keys of a mapping; arrays and scalars are not mappings
IsMapping(value) == value.t = "object"

RECURSIVE WalkOwn(_, _, _)
\* the walk through nested mappings by own keys, one segment at a time
WalkOwn(parts, i, value) ==
    IF i > Len(parts) THEN value
    ELSE IF IsMapping(value) /\ parts[i] \in DOMAIN value.v
         THEN WalkOwn(parts, i + 1, value.v[parts[i]])
         ELSE Undefined

\* attribute resolution as C13 describes it: the whole path as a literal
\* key of the attributes map first, the nested walk otherwise
ResolveOwn(attributes, attribute) ==
    IF attribute \in DOMAIN attributes.v THEN attributes.v[attribute]
    ELSE WalkOwn(split(attribute), 1, attributes)

\* C13: the condition is decided on the value that the attribute path
\* resolves to: the literal key of the attributes map if there is one,
\* otherwise the value reached by walking the segments through nested
\* mappings, not-found as soon as a segment is missing or a value that is
\* not a mapping is reached before the last segment.
AttributeResolution ==
    (ConditionCalled /\ HasAttributesMap) =>
        last.result = applyOperator(Operator,
                          ResolveOwn(GetProperty(CondContext, "attributes"),
                                     Attribute),
                          Comparison)

\* the operands of the last condition as toNumber coerces them
NumActual == toNumber(Resolved)
NumValue  == toNumber(Comparison)

\* the relation of a comparison operator on two coerced operands, false
\* when one of them is NaN
Relation(operator, x, y) ==
    /\ x.t = "number" /\ y.t = "number"
    /\ CASE operator = "gt"  -> x.v > y.v
         [] operator = "gte" -> x.v >= y.v
         [] operator = "lt"  -> x.v < y.v
         [] operator = "lte" -> x.v <= y.v

\* exactly one of the two operators matches on the last condition's operands
ExactlyOne(op1, op2) == WithOperator(op1).v # WithOperator(op2).v

\* numeric comparison, with the operands for which exactly one of gt and
\* lte and exactly one of lt and gte is claimed to match
Numeric(complementary) ==
    (ConditionCalled /\ Present /\ Operator \in {"gt", "gte", "lt", "lte"}) =>
        /\ last.result.t = "boolean"
        /\ (NumActual = Null \/ NumValue = Null) => last.result = Bool(FALSE)
        /\ (NumActual # Null /\ NumValue # Null) =>
               /\ last.result = Bool(Relation(Operator, NumActual, NumValue))
               /\ complementary =>
                      ExactlyOne("gt", "lte") /\ ExactlyOne("lt", "gte")

\* C14 as stated: for every pair of coercible operands exactly one of gt
\* and lte and exactly one of lt and gte matches.
NumericComparisonAnyNumber ==
    Numeric(TRUE)

\* C14, amended: both operands are coerced to numbers (numbers unchanged,
\* strings parsed); if either cannot be coerced the condition does not match
\* and nothing is raised; otherwise it matches exactly when the relation
\* holds between the coerced operands, so that for coercible operands
\* neither of which is NaN exactly one of gt and lte, and exactly one of lt
\* and gte, matches; with a NaN operand none of the four matches.
NumericComparison ==
    Numeric(NumActual.t = "number" /\ NumValue.t = "number")

\* C14 witness: 'gte' on equal operands, a number and a parsed string.
NumericComparisonWitness ==
    /\ ConditionCalled /\ Present
    /\ Operator = "gte"
    /\ Resolved = Number(25)
    /\ Comparison = Str("25")
    /\ last.result = Bool(TRUE)

ConditionsCalled == last.op = "evaluateConditions"

\* the conditions of the last call of evaluateConditions (none when the
\* list is missing)
TheConditions == IF last.args[1].t = "array" THEN last.args[1].v ELSE <<>>

\* what evaluateCondition returns for condition k of the last list
Outcomes(k) == evaluateCondition(TheConditions[k], last.args[2])

\* C15: evaluateConditions is true exactly when every condition of the list
\* matches under evaluateCondition; it is true for an empty or missing
\* list, and false whenever at least one condition fails.
AndSemantics ==
    ConditionsCalled =>
        /\ last.result = Bool(TRUE) <=>
               \A k \in 1..Len(TheConditions) : Outcomes(k) = Bool(TRUE)
        /\ Len(TheConditions) = 0 => last.result = Bool(TRUE)
        /\ (\E k \in 1..Len(TheConditions) : Outcomes(k) = Bool(FALSE))
               => last.result = Bool(FALSE)

\* C15 witness: a list of two conditions whose first fails and whose second
\* matches is false.
AndSemanticsWitness ==
    /\ ConditionsCalled
    /\ Len(TheConditions) = 2
    /\ Outcomes(1) = Bool(FALSE)
    /\ Outcomes(2) = Bool(TRUE)
    /\ last.result = Bool(FALSE)

----------------------------------------------------------------------------
(* More properties of the Evaluator (Spec).                                *)

\* the rule whose index the last result carries
WinningRule == RulesOf(FlagKey)[RuleIndex.v + 1]

EvaluatorImmutability ==
    /\ [][config' = config]_vars
    /\ [](last.op = "getConfig" => last.result = config)

\* C18 witness: getConfig has returned a configuration whose flag has two
\* rules, after the Evaluator was constructed with it.
EvaluatorImmutabilityWitness ==
    /\ last.op = "getConfig"
    /\ last.result = config
    /\ Len(RulesOf("test-flag")) = 2

\* every rule of the flag has conditions the context matches and a rollout
\* whose percentage the bucket of the context's user exceeds
ExcludedByEveryRule(flagKey, context) ==
    /\ Configured(flagKey)
    /\ Len(RulesOf(flagKey)) > 0
    /\ Truthy(GetProperty(context, "userId"))
    /\ \A j \in 1..Len(RulesOf(flagKey)) :
           /\ ConditionsAllMatch(RulesOf(flagKey)[j], context)
           /\ Restricted(RulesOf(flagKey)[j])
           /\ BucketFor(context, flagKey) > Percentage(RulesOf(flagKey)[j]).v

RaisedPercentages == {0, 25, 50, 51, 75, 99, 100, 101, 150}

\* the rule with its percentage replaced
RaisedTo(rule, percentage) ==
    Obj([rule.v EXCEPT !.percentage = Number(percentage)])

\* C30: for a fixed userId, flag key and context, raising the percentage
\* of a rule that matched never excludes the user: the rule whose index
\* the result carries also matches at every percentage p' >= p, below 100
\* (the same bucket is compared) and at 100 and above (no rollout check).
RolloutMonotonicity ==
    (Returned /\ RuleIndex.t = "number" /\ Percentage(WinningRule).t = "number") =>
        \A raised \in RaisedPercentages :
            raised >= Percentage(WinningRule).v =>
                GetProperty(evaluateRule(RaisedTo(WinningRule, raised), Ctx, FlagKey),
                            "matched") = Bool(TRUE)

\* C30 witness: user-213, whose bucket is 50, is included by a rule with
\* percentage 50, and excluded by the same rule at percentage 25.
RolloutMonotonicityWitness ==
    /\ Returned
    /\ Reason = Str("rollout")
    /\ Bucket = Number(50)
    /\ Percentage(WinningRule) = Number(50)
    /\ GetProperty(evaluateRule(RaisedTo(WinningRule, 25), Ctx, FlagKey),
                   "matched") = Bool(FALSE)

----------------------------------------------------------------------------
(* Properties of the clients (SpecClient).  A client's configuration can   *)
(* be replaced after a call has returned, so what a call returns is        *)
(* related to the configuration held in the step that makes the call.      *)

\* this step is a call of the operation on the client
Calls(op) == last' # last /\ last'.op = op

\* the only rule of a configured flag whose rule list has one element
SingleRule(flagKey) == RulesOf(flagKey)[1]

\* the flag has a single rule, with percentage 50 and conditions that the
\* context matches
HalfRollout(flagKey, context) ==
    /\ Configured(flagKey)
    /\ Len(RulesOf(flagKey)) = 1
    /\ Percentage(SingleRule(flagKey)) = Number(50)
    /\ ConditionsAllMatch(SingleRule(flagKey), context)

\* C17: FlagClient.getBool on a flag whose single rule has matching
\* conditions and percentage 50 returns, for every context that supplies a
\* userId, a result whose reason is 'rollout' or 'rollout_excluded' and
\* whose metadata.bucket is a number.
RolloutReasons ==
    [][ ( /\ Calls("getBool")
          /\ ~client.web
          /\ ~client.isClosed
          /\ HalfRollout(FlagKey', Ctx')
          /\ UserId' # Undefined )
        => /\ Reason' \in { Str("rollout"), Str("rollout_excluded") }
           /\ Bucket'.t = "number" ]_vars

\* what evalBool and evalVariant return on a given configuration snapshot
EvalOn(snapshot, op, flagKey, context) ==
    LET flag == GetProperty(snapshot, flagKey)
    IN  IF op = "getBool"
        THEN IF ~Truthy(flag) THEN NotFound(Bool(FALSE), flagKey)
             ELSE evalBoolRules(flag, 0, context, flagKey)
        ELSE IF ~Truthy(flag) THEN NotFound(Str("default"), flagKey)
             ELSE evalVariantRules(flag, 0, context, flagKey)

\* the snapshots a client is given: at creation, by a fetch, by updateConfig
Snapshots == ClientConfigs

\* this step is a getBool or getVariant call that was evaluated
Evaluates == (Calls("getBool") \/ Calls("getVariant")) /\ ~client.isClosed

\* C19: when a client replaces its configuration (a refresh completing or
\* updateConfig) while evaluations are issued, every getBool and getVariant
\* call is evaluated entirely against one snapshot: the configuration held
\* in the step of the call, which is a whole snapshot the client was given,
\* and a replacement installs exactly the new snapshot, never a mixture of
\* the old and the new one.
NoTornRead ==
    /\ [][ Evaluates =>
             /\ config \in Snapshots
             /\ config' = config
             /\ last'.result =
                    EvalOn(config, last'.op, last'.args[1], last'.args[2]) ]_vars
    /\ [][ config' # config => config' \in Snapshots \ {config} ]_vars

\* C19 witness: a getBool was answered from the configuration held before
\* a replacement; the configuration has since been replaced, a further
\* fetch is in flight, and the new configuration answers differently.
NoTornReadWitness ==
    /\ last.op = "getBool"
    /\ ~IsThrown(last.result)
    /\ Len(client.fetching) > 0
    /\ last.result # EvalOn(config, "getBool", last.args[1], last.args[2])
    /\ \E old \in Snapshots \ {config} :
           last.result = EvalOn(old, "getBool", last.args[1], last.args[2])

\* the operations that refuse to run on a closed client
ClosedChecked == {"getBool", "getVariant", "refresh", "updateConfig"}

\* C20: after close() on a FlagClient or WebFlagClient, isReady() returns
\* false and every later getBool, getVariant and refresh call (and
\* updateConfig on the web client) fails with 'Client is closed'; no
\* operation, and no fetch that settles afterwards, makes the client ready
\* again.
ClosedClient ==
    /\ [](client.isClosed =>
            /\ isReady = Bool(FALSE)
            /\ last.op = "isReady" => last.result = Bool(FALSE)
            /\ last.op \in ClosedChecked => last.result = ClientIsClosed)
    /\ [][client.isClosed => client'.isClosed]_vars

\* C20 witness: a web client was closed while a fetch was in flight, and
\* an updateConfig called afterwards failed with 'Client is closed'.
ClosedClientWitness ==
    /\ client.isClosed
    /\ client.web
    /\ Len(client.fetching) > 0
    /\ last.op = "updateConfig"
    /\ last.result = ClientIsClosed

----------------------------------------------------------------------------
(* Properties of refreshes (SpecRefresh).                                  *)

\* this step ends a refresh(): its fetch settled and it ran to its end
RefreshEnds == Len(client'.fetching) < Len(client.fetching)

\* C28: once close() has been called on a client, the configuration it
\* holds, as getConfig, hasFlag and getFlagKeys show it, never changes
\* again, even when a refresh() was in flight when close() was called.
FrozenAfterClose ==
    [][client.isClosed => /\ config' = config
                          /\ getConfig' = getConfig
                          /\ getFlagKeys' = getFlagKeys]_vars

\* C29: when several refresh() calls overlap, the configuration held once
\* all of them have completed is the response of the one started last: the
\* response of an older fetch never replaces the response of a newer one.
OverlappingRefreshes ==
    (client.record /\ Len(client.fetching) = 0) => ~client.stale

\* C22: when a refresh() ends, the client holds the fetched configuration
\* if fetchConfig resolved, and the configuration it held if fetchConfig
\* rejected; a rejection reaches the caller of refresh(), except in the
\* interval callback, which swallows it; the interval keeps running and
\* evaluations go on against the configuration held.
RefreshOutcome ==
    [][ RefreshEnds =>
          IF client'.settled.response = FetchFailed
          THEN /\ config' = config
               /\ client'.refreshTimer = client.refreshTimer
               /\ client'.settled.raised =
                      IF client'.settled.timer THEN Undefined ELSE FetchFailed
               /\ \A args \in RefreshInputs :
                      EvalOn(config', "getBool", args[1], args[2])
                          = EvalOn(config, "getBool", args[1], args[2])
          ELSE /\ config' = client'.settled.response
               /\ client'.settled.response \in Snapshots
               /\ client'.settled.raised = Undefined ]_vars

\* C22 witness: a refresh made by the interval has failed; the client is
\* open, its interval still runs, and a getBool was answered.
RefreshOutcomeWitness ==
    /\ client.settled.response = FetchFailed
    /\ client.settled.timer
    /\ client.settled.raised = Undefined
    /\ client.refreshTimer
    /\ ~client.isClosed
    /\ last.op = "getBool"
    /\ last.result = EvalOn(config, "getBool", last.args[1], last.args[2])

\* this step issues a fetch from the interval callback
TimerFetchIssued ==
    /\ Len(client'.fetching) > Len(client.fetching)
    /\ client'.fetching[Len(client'.fetching)].timer

\* C21: a client issues fetches from its interval only while it is open,
\* enableRefresh is true and apiUrl and apiKey are set, one fetch for each
\* time the interval elapses; with enableRefresh false, or once close()
\* has returned, there is no interval and no such fetch is ever issued.
RefreshSchedule ==
    /\ [][ TimerFetchIssued =>
             /\ ~client.isClosed
             /\ client.enableRefresh
             /\ client.remote
             /\ Len(client'.fetching) = Len(client.fetching) + 1 ]_vars
    /\ [](client.refreshTimer =>
             ~client.isClosed /\ client.enableRefresh /\ client.remote)

\* C21 witness: two fetches issued by the interval of an open client are
\* in flight.
RefreshScheduleWitness ==
    /\ ~client.isClosed
    /\ client.refreshTimer
    /\ client.enableRefresh
    /\ Len(client.fetching) = 2
    /\ client.fetching[1].timer
    /\ client.fetching[2].timer

----------------------------------------------------------------------------
(* Properties of the listeners (SpecListeners).                            *)

\* this step replaces the configuration of the web client and notifies:
\* an updateConfig that returned, or a refresh whose fetch resolved
Notifies ==
    \/ Calls("updateConfig") /\ last'.result = Undefined
    \/ RefreshEnds /\ client'.settled.response # FetchFailed

\* how many times the listener is in the sequence
Times(listener, invoked) ==
    Cardinality({ k \in 1..Len(invoked) : invoked[k] = listener })

Subscribed(listener) == indexOf(client.listeners, listener) > 0

\* C24: each updateConfig call and each successful refresh of the web
\* client invokes every listener subscribed at that moment exactly once,
\* and no listener that is not subscribed (never was, or has unsubscribed);
\* a listener that throws does not keep the others from being invoked and
\* does not make updateConfig throw.
ListenerNotification ==
    [][ Notifies =>
          \A listener \in ListenerPool :
              Times(listener, client'.notified) =
                  IF Subscribed(listener) THEN 1 ELSE 0 ]_vars

----------------------------------------------------------------------------
(* Properties of fetchConfig (SpecFetch).                                  *)

\* the call has settled later than its timeout allows
SettledLate ==
    /\ request.pc \in {"resolved", "rejected"}
    /\ request.settledAt > request.timeout

\* C23: a fetchConfig call that has not completed within its timeout (5000
\* ms when none is given) rejects with 'Config fetch timeout after
\* <timeout>ms', whatever the fetch function does: it never settles later
\* than the timeout with a configuration or with another error.
FetchTimeout ==
    SettledLate =>
        request.result =
            Thrown(Error("Error", TimeoutMessage(request.timeout)))

----------------------------------------------------------------------------
(* Properties of the API (SpecApi).                                        *)

\* the request just served was authenticated
Authenticated(call) == call.op # "new" /\ call.args[1] # Null

\* no two rows of the flags table have the same environment and key
UniqueKeys ==
    \A f, g \in db.flags : (f.envId = g.envId /\ f.key = g.key) => f = g

\* the step serves an authenticated POST /v1/flags whose key is the key of
\* a flag stored for the environment
PostsStoredKey ==
    /\ last'.op = "POST /v1/flags"
    /\ Authenticated(last')
    /\ \E f \in db.flags :
           /\ f.envId = last'.args[1].id
           /\ Str(f.key) = last'.args[2]

\* the step is answered with the status and stores nothing
Refused(status) == last'.result.status = status /\ db' = db

\* C25 as stated: the keys of an environment's stored flags are distinct,
\* and every POST /v1/flags with a key stored for the authenticated
\* environment is answered with 409 and stores nothing.
FlagKeyUniquenessAsStated ==
    /\ [](UniqueKeys)
    /\ [][PostsStoredKey => Refused(409)]_vars

\* C25: after any sequence of create, update and delete requests the keys
\* of an environment's stored flags are distinct; a POST /v1/flags with a
\* key stored for the authenticated environment stores nothing, and is
\* answered with 409 when its config is a string of valid JSON, with 400
\* when it is not.
FlagKeyUniqueness ==
    /\ [](UniqueKeys)
    /\ [][PostsStoredKey =>
            IF configProblem(last'.args[3]) = ""
            THEN Refused(409) ELSE Refused(400)]_vars

\* a duplicate key was refused while the other environment holds a flag
FlagKeyUniquenessWitness ==
    /\ last.op = "POST /v1/flags"
    /\ last.result.status = 409
    /\ \E f, g \in db.flags : f.envId # g.envId
    /\ db.created = MaxFlags

\* the call addresses, by id, a flag stored for another environment than
\* the authenticated one
OfAnotherEnvironment(call, flags) ==
    /\ call.op \in {"GET /v1/flags/:id", "PUT /v1/flags/:id",
                    "DELETE /v1/flags/:id"}
    /\ Authenticated(call)
    /\ \E f \in flags : f.id = call.args[2].v /\ f.envId # call.args[1].id

\* what GET /v1/flags/:id, GET /v1/flags and GET /v1/config have just
\* returned is stored for the authenticated environment
OwnFlagsOnly ==
    (Authenticated(last) /\ last.result.status = 200) =>
        CASE last.op = "GET /v1/flags/:id" ->
                 /\ last.result.body.v \in db.flags
                 /\ last.result.body.v.envId = last.args[1].id
          [] last.op = "GET /v1/flags" ->
                 \A f \in last.result.body.v :
                     f \in db.flags /\ f.envId = last.args[1].id
          [] last.op = "GET /v1/config" ->
                 \A k \in DOMAIN last.result.body.v :
                     \E f \in db.flags :
                         /\ f.envId = last.args[1].id
                         /\ f.key = k
                         /\ JSONparse(f.config) = last.result.body.v[k]
          [] OTHER -> TRUE

\* C26 as stated: GET, PUT and DELETE /v1/flags/:id of a flag of another
\* environment are answered with 404 and leave the flag as it is, and the
\* reading routes return flags of the authenticated environment only.
EnvironmentIsolationAsStated ==
    /\ [](OwnFlagsOnly)
    /\ [][OfAnotherEnvironment(last', db.flags) => Refused(404)]_vars

\* C26: a request addressing by id a flag of another environment than the
\* authenticated one leaves the table as it is and is answered with 404,
\* or, for a PUT whose config is not a string of valid JSON, with 400; the
\* reading routes return flags of the authenticated environment only.
EnvironmentIsolation ==
    /\ [](OwnFlagsOnly)
    /\ [][OfAnotherEnvironment(last', db.flags) =>
            IF last'.op = "PUT /v1/flags/:id"
               /\ configProblem(last'.args[3]) # ""
            THEN Refused(400) ELSE Refused(404)]_vars

\* an update of the other environment's flag was refused
EnvironmentIsolationWitness ==
    /\ last.op = "PUT /v1/flags/:id"
    /\ last.result.status = 404
    /\ OfAnotherEnvironment(last, db.flags)

============================================================================
